---- MODULE Spec2Model ----
(***************************************************************************)
(* Movement analysis engine of the arm-raises exercise tracker.            *)
(*                                                                         *)
(* The engine is ArmRaisesAnalyzer (the peak-angle-at-lowering variant):   *)
(* one analyze(landmarks) call per frame, reset() between sessions.        *)
(*                                                                         *)
(* Numbers.  Arm and elbow angles of a frame are whole degrees.  The       *)
(* smoothed angle is a mean of 1..historySize samples per side, so it is   *)
(* kept exactly, in units of 1/Scale degree (Scale = 2 * lcm(1..5)); the   *)
(* thresholds of the code are multiplied by Scale where they are compared  *)
(* with it.  Times are milliseconds, read from the clock once per call.    *)
(* JavaScript's undefined and NaN are the two negative codes Undefined and *)
(* NaN, never equal to a time.                                             *)
(*                                                                         *)
(* Geometry.  A frame fed to the engine carries the angles its landmarks   *)
(* give.  The angle functions themselves are computed apart from the       *)
(* engine, on landmark positions of a small grid, in thousandths of a      *)
(* degree.                                                                 *)
(*                                                                         *)
(* Left out.                                                               *)
(* The resting shoulder heights stored at calibration are never read by    *)
(* the code and are not kept; the calibrated flag is.                      *)
(***************************************************************************)
EXTENDS Integers, Sequences, FiniteSets, TLC

VARIABLES
    currentPhase,     \* this.currentPhase
    previousPhase,    \* this.previousPhase
    repCount,         \* this.repCount
    currentRep,       \* this.currentRep
    leftArmHistory,   \* this.leftArmHistory
    rightArmHistory,  \* this.rightArmHistory
    currentErrors,    \* this.currentErrors
    formScore,        \* this.formScore
    calibrated,       \* this.calibrated
    clock,            \* the last reading of Date.now()
    result,           \* what the last analyze() call returned: <<>> is null
    fresh,            \* a second engine, constructed when reset() was called
    freshResult,      \* what the second engine returned for the same frame
    fed,              \* how many samples of the synthetic trace were fed
    phasesReturned,   \* the distinct phases the trace run returned, in order
    pending,          \* the frame analyze() is working on, between its steps
    kept,             \* a result the caller kept from an earlier analyze() call
    geometry,         \* the angles last computed from landmark positions: <<>> is none
    voice,            \* the last recognition event and the commands it ran: <<>> is none
    audio,            \* CoreAudioFeedback: enabled, and the text the last step gave to speak()
    audioFeedback,    \* ArmRaisesAudioFeedback: lastPhase, currentPhase, holdTimerActive, holdTimerId
    timers,           \* the setTimeout() callbacks that have not fired yet
    session,          \* main.js: exerciseActive, repCount, the last analysis of the module, the counts announced by the last handler
    voiceCommands,    \* VoiceCommands: isListening, the recognizer, the restarts that wait, what the last handler did
    countdown,        \* AudioFeedback of part_000: the phase fields, the countdown fields, the last analysis and what was said in this hold
    speech,           \* CoreAudioFeedback with its clock: enabled, lastFeedback and the times, what the last handler handed to speech synthesis, what was handed since the reset
    modular           \* the analyzer of the exercise module with its clock: the state fields, and since when the state is what it is, and whether the arms were held

engineVars == <<currentPhase, previousPhase, repCount, currentRep,
                leftArmHistory, rightArmHistory, currentErrors, formScore,
                calibrated>>

\* the analyzer, its clock and what its callers hold of it
analyzerVars == <<currentPhase, previousPhase, repCount, currentRep,
                  leftArmHistory, rightArmHistory, currentErrors, formScore,
                  calibrated, clock, result, fresh, freshResult, fed,
                  phasesReturned, pending, kept>>

\* what the page around the analyzer keeps
pageVars == <<geometry, voice, audio, audioFeedback, timers, session, voiceCommands, countdown, speech, modular>>

\* what is kept outside the calls of analyze() and reset() as a whole
hostVars == <<pending, kept, geometry, voice, audio, audioFeedback, timers, session, voiceCommands, countdown, speech, modular>>

vars == <<currentPhase, previousPhase, repCount, currentRep,
          leftArmHistory, rightArmHistory, currentErrors, formScore,
          calibrated, clock, result, fresh, freshResult, fed, phasesReturned,
          pending, kept,
          geometry,
          voice,
          audio,
          audioFeedback,
          timers,
          session,
          voiceCommands,
          countdown,
          speech,
          modular>>

----------------------------------------------------------------------------
(* Bounds of the model *)

\* the reading of Date.now() when the page is loaded
Epoch == 20000

\* one clock step, in ms
Tick == 1000

\* no frame is analysed after this clock reading
MaxClock == 8000

ClockSteps == {Tick, 2 * Tick}

----------------------------------------------------------------------------
(* Constants of the program *)

historySize == 5
MinLandmarks == 33
RestingMax == 30
TargetMin == 80
TargetMax == 100
HoldMs == 3000
MinPeak == 70
ArmTooHigh == 110
SymmetryTolerance == 15
ElbowMin == 140
MinRaiseMs == 1500

\* the smoothed angle is held in units of 1/Scale degree
Scale == 2 * 60

Undefined == 0 - 1
NaN == 0 - 2

Phases == {"resting", "raising", "holding", "lowering"}

----------------------------------------------------------------------------
(* Frames: the landmarks argument of analyze().  A frame carries the number *)
(* of landmarks and the four joint angles its landmarks give.              *)

Landmarks(n, la, ra, le, re) ==
    [present |-> TRUE, length |-> n,
     leftArm |-> la, rightArm |-> ra, leftElbow |-> le, rightElbow |-> re]

NullLandmarks ==
    [present |-> FALSE, length |-> 0,
     leftArm |-> 0, rightArm |-> 0, leftElbow |-> 0, rightElbow |-> 0]

ValidFrames ==
    { Landmarks(33, 10, 10, 170, 170),
      Landmarks(33, 50, 50, 170, 170),
      Landmarks(33, 90, 90, 170, 170),
      Landmarks(33, 130, 130, 170, 170),
      Landmarks(33, 95, 65, 120, 170) }

MalformedFrames == { NullLandmarks, Landmarks(20, 90, 90, 170, 170) }

Frames == ValidFrames \cup MalformedFrames

----------------------------------------------------------------------------
(* The engine *)

EmptyRep ==
    [startTime |-> 0, raiseTime |-> 0, lowerTime |-> 0, peakAngle |-> 0,
     holdStartTime |-> 0, holdDuration |-> 0, holdComplete |-> "false"]

\* the record reset() assigns: it has no hold fields
ResetRep ==
    [startTime |-> 0, raiseTime |-> 0, lowerTime |-> 0, peakAngle |-> 0,
     holdStartTime |-> Undefined, holdDuration |-> Undefined,
     holdComplete |-> "undefined"]

NewEngine ==
    [currentPhase |-> "resting", previousPhase |-> "resting", repCount |-> 0,
     currentRep |-> EmptyRep,
     leftArmHistory |-> <<>>, rightArmHistory |-> <<>>,
     currentErrors |-> {}, formScore |-> 100, calibrated |-> FALSE]

Engine ==
    [currentPhase |-> currentPhase, previousPhase |-> previousPhase,
     repCount |-> repCount, currentRep |-> currentRep,
     leftArmHistory |-> leftArmHistory, rightArmHistory |-> rightArmHistory,
     currentErrors |-> currentErrors, formScore |-> formScore,
     calibrated |-> calibrated]

RECURSIVE Sum(_)
Sum(s) == IF s = <<>> THEN 0 ELSE Head(s) + Sum(Tail(s))

calculateArmAngles(landmarks) ==
    [leftArm |-> landmarks.leftArm,
     rightArm |-> landmarks.rightArm,
     averageArm |-> (landmarks.leftArm + landmarks.rightArm) * (Scale \div 2),
     leftElbow |-> landmarks.leftElbow,
     rightElbow |-> landmarks.rightElbow,
     symmetryDiff |-> IF landmarks.leftArm >= landmarks.rightArm
                      THEN landmarks.leftArm - landmarks.rightArm
                      ELSE landmarks.rightArm - landmarks.leftArm]

\* Seeded fault of the smoothing: only the newest sample is used.
SmoothedAngle_LastSample(left, right) ==
    (left[Len(left)] + right[Len(right)]) * (Scale \div 2)

\* (avgLeft + avgRight) / 2 of two histories of equal length, times Scale
SmoothedAngle(left, right) ==
    (Sum(left) + Sum(right)) * ((Scale \div 2) \div Len(left))

\* Seeded fault of TrackPeak: the peak is overwritten by every frame in the band.
\* Seeded fault of the peak tracking: the peak is never recorded.
TrackPeak_Skipped(rep, avgAngle) == rep

TrackPeak_Overwritten(rep, avgAngle) == [rep EXCEPT !.peakAngle = avgAngle]

\* the peak of the rep, tracked while the smoothed angle is in the target band
TrackPeak(rep, avgAngle) ==
    IF avgAngle > rep.peakAngle
    THEN [rep EXCEPT !.peakAngle = avgAngle] ELSE rep

\* the hold bookkeeping of the target-band branch
TrackHold(rep, prev, now) ==
    IF prev \in {"raising", "holding"}
    THEN LET hs == IF rep.holdStartTime = 0 THEN now ELSE rep.holdStartTime
             hd == IF hs = Undefined THEN NaN ELSE now - hs
         IN [rep EXCEPT !.holdStartTime = hs,
                        !.holdDuration = hd,
                        !.holdComplete = IF hd # NaN /\ hd >= HoldMs
                                         THEN "true" ELSE @]
    ELSE rep

\* Seeded fault of detectMovementPhase: a full history drops the newest sample,
\* not the oldest.
detectMovementPhase_EvictNewest(e, angles, now) ==
    LET pushedL == Append(e.leftArmHistory, angles.leftArm)
        pushedR == Append(e.rightArmHistory, angles.rightArm)
        over == Len(pushedL) > historySize
        left == IF over THEN SubSeq(pushedL, 1, historySize) ELSE pushedL
        right == IF over THEN SubSeq(pushedR, 1, historySize) ELSE pushedR
        avgAngle == SmoothedAngle(left, right)
        rep == e.currentRep
        hist == [e EXCEPT !.leftArmHistory = left, !.rightArmHistory = right]
        out ==
          IF avgAngle < RestingMax * Scale
          THEN [hist EXCEPT !.currentPhase = "resting", !.calibrated = TRUE]
          ELSE IF avgAngle >= TargetMin * Scale /\ avgAngle <= TargetMax * Scale
          THEN [hist EXCEPT !.currentPhase = "holding",
                            !.currentRep = TrackHold(TrackPeak(rep, avgAngle),
                                                     e.previousPhase, now)]
          ELSE IF avgAngle > RestingMax * Scale /\ avgAngle < TargetMin * Scale
          THEN IF e.currentPhase = "resting"
               THEN [hist EXCEPT !.currentPhase = "raising",
                                 !.currentRep = IF e.previousPhase = "resting"
                                                THEN [rep EXCEPT !.startTime = now]
                                                ELSE rep]
               ELSE IF e.currentPhase = "holding"
               THEN [hist EXCEPT !.currentPhase = "lowering",
                                 !.currentRep = IF e.previousPhase = "holding"
                                                THEN [rep EXCEPT !.raiseTime = now - rep.startTime]
                                                ELSE rep]
               ELSE hist
          ELSE hist
    IN [out EXCEPT !.previousPhase = e.currentPhase]

\* Seeded fault of detectMovementPhase: between the bands a phase that is
\* neither RESTING nor HOLDING becomes LOWERING.
detectMovementPhase_MidBandLowers(e, angles, now) ==
    LET pushedL == Append(e.leftArmHistory, angles.leftArm)
        pushedR == Append(e.rightArmHistory, angles.rightArm)
        over == Len(pushedL) > historySize
        left == IF over THEN Tail(pushedL) ELSE pushedL
        right == IF over THEN Tail(pushedR) ELSE pushedR
        avgAngle == SmoothedAngle(left, right)
        rep == e.currentRep
        hist == [e EXCEPT !.leftArmHistory = left, !.rightArmHistory = right]
        out ==
          IF avgAngle < RestingMax * Scale
          THEN [hist EXCEPT !.currentPhase = "resting", !.calibrated = TRUE]
          ELSE IF avgAngle >= TargetMin * Scale /\ avgAngle <= TargetMax * Scale
          THEN [hist EXCEPT !.currentPhase = "holding",
                            !.currentRep = TrackHold(TrackPeak(rep, avgAngle),
                                                     e.previousPhase, now)]
          ELSE IF avgAngle > RestingMax * Scale /\ avgAngle < TargetMin * Scale
          THEN IF e.currentPhase = "resting"
               THEN [hist EXCEPT !.currentPhase = "raising",
                                 !.currentRep = IF e.previousPhase = "resting"
                                                THEN [rep EXCEPT !.startTime = now]
                                                ELSE rep]
               ELSE IF e.currentPhase = "holding"
               THEN [hist EXCEPT !.currentPhase = "lowering",
                                 !.currentRep = IF e.previousPhase = "holding"
                                                THEN [rep EXCEPT !.raiseTime = now - rep.startTime]
                                                ELSE rep]
               ELSE [hist EXCEPT !.currentPhase = "lowering"]
          ELSE hist
    IN [out EXCEPT !.previousPhase = e.currentPhase]

detectMovementPhase(e, angles, now) ==
    LET pushedL == Append(e.leftArmHistory, angles.leftArm)
        pushedR == Append(e.rightArmHistory, angles.rightArm)
        over == Len(pushedL) > historySize
        left == IF over THEN Tail(pushedL) ELSE pushedL
        right == IF over THEN Tail(pushedR) ELSE pushedR
        avgAngle == SmoothedAngle(left, right)
        rep == e.currentRep
        hist == [e EXCEPT !.leftArmHistory = left, !.rightArmHistory = right]
        out ==
          IF avgAngle < RestingMax * Scale
          THEN [hist EXCEPT !.currentPhase = "resting", !.calibrated = TRUE]
          ELSE IF avgAngle >= TargetMin * Scale /\ avgAngle <= TargetMax * Scale
          THEN [hist EXCEPT !.currentPhase = "holding",
                            !.currentRep = TrackHold(TrackPeak(rep, avgAngle),
                                                     e.previousPhase, now)]
          ELSE IF avgAngle > RestingMax * Scale /\ avgAngle < TargetMin * Scale
          THEN IF e.currentPhase = "resting"
               THEN [hist EXCEPT !.currentPhase = "raising",
                                 !.currentRep = IF e.previousPhase = "resting"
                                                THEN [rep EXCEPT !.startTime = now]
                                                ELSE rep]
               ELSE IF e.currentPhase = "holding"
               THEN [hist EXCEPT !.currentPhase = "lowering",
                                 !.currentRep = IF e.previousPhase = "holding"
                                                THEN [rep EXCEPT !.raiseTime = now - rep.startTime]
                                                ELSE rep]
               ELSE hist
          ELSE hist
    IN [out EXCEPT !.previousPhase = e.currentPhase]

\* Seeded faults of detectErrors.
\* The height of the rep is judged in every phase.
detectErrors_HeightInAnyPhase(e, angles, phase) ==
    (IF angles.leftArm > ArmTooHigh THEN {"arm_too_high_left"} ELSE {})
    \cup (IF angles.rightArm > ArmTooHigh THEN {"arm_too_high_right"} ELSE {})
    \cup (IF angles.symmetryDiff > SymmetryTolerance /\ phase \in {"raising", "holding"}
          THEN {"asymmetric_movement"} ELSE {})
    \cup (IF angles.leftElbow < ElbowMin THEN {"elbow_bent_left"} ELSE {})
    \cup (IF angles.rightElbow < ElbowMin THEN {"elbow_bent_right"} ELSE {})
    \cup (IF phase = "holding" /\ e.previousPhase = "raising"
             /\ e.currentRep.raiseTime > 0 /\ e.currentRep.raiseTime < MinRaiseMs
          THEN {"too_fast_raising"} ELSE {})
    \cup (IF e.currentRep.peakAngle < MinPeak * Scale
          THEN {"insufficient_height"} ELSE {})

\* A difference of exactly the tolerance counts as asymmetric.
detectErrors_SymmetryInclusive(e, angles, phase) ==
    (IF angles.leftArm > ArmTooHigh THEN {"arm_too_high_left"} ELSE {})
    \cup (IF angles.rightArm > ArmTooHigh THEN {"arm_too_high_right"} ELSE {})
    \cup (IF angles.symmetryDiff >= SymmetryTolerance /\ phase \in {"raising", "holding"}
          THEN {"asymmetric_movement"} ELSE {})
    \cup (IF angles.leftElbow < ElbowMin THEN {"elbow_bent_left"} ELSE {})
    \cup (IF angles.rightElbow < ElbowMin THEN {"elbow_bent_right"} ELSE {})
    \cup (IF phase = "holding" /\ e.previousPhase = "raising"
             /\ e.currentRep.raiseTime > 0 /\ e.currentRep.raiseTime < MinRaiseMs
          THEN {"too_fast_raising"} ELSE {})
    \cup (IF phase = "lowering" /\ e.currentRep.peakAngle < MinPeak * Scale
          THEN {"insufficient_height"} ELSE {})

\* The bounds of the left arm and of the right elbow are inclusive.
detectErrors_BoundsInclusive(e, angles, phase) ==
    (IF angles.leftArm >= ArmTooHigh THEN {"arm_too_high_left"} ELSE {})
    \cup (IF angles.rightArm > ArmTooHigh THEN {"arm_too_high_right"} ELSE {})
    \cup (IF angles.symmetryDiff > SymmetryTolerance /\ phase \in {"raising", "holding"}
          THEN {"asymmetric_movement"} ELSE {})
    \cup (IF angles.leftElbow < ElbowMin THEN {"elbow_bent_left"} ELSE {})
    \cup (IF angles.rightElbow <= ElbowMin THEN {"elbow_bent_right"} ELSE {})
    \cup (IF phase = "holding" /\ e.previousPhase = "raising"
             /\ e.currentRep.raiseTime > 0 /\ e.currentRep.raiseTime < MinRaiseMs
          THEN {"too_fast_raising"} ELSE {})
    \cup (IF phase = "lowering" /\ e.currentRep.peakAngle < MinPeak * Scale
          THEN {"insufficient_height"} ELSE {})

detectErrors(e, angles, phase) ==
    (IF angles.leftArm > ArmTooHigh THEN {"arm_too_high_left"} ELSE {})
    \cup (IF angles.rightArm > ArmTooHigh THEN {"arm_too_high_right"} ELSE {})
    \cup (IF angles.symmetryDiff > SymmetryTolerance /\ phase \in {"raising", "holding"}
          THEN {"asymmetric_movement"} ELSE {})
    \cup (IF angles.leftElbow < ElbowMin THEN {"elbow_bent_left"} ELSE {})
    \cup (IF angles.rightElbow < ElbowMin THEN {"elbow_bent_right"} ELSE {})
    \cup (IF phase = "holding" /\ e.previousPhase = "raising"
             /\ e.currentRep.raiseTime > 0 /\ e.currentRep.raiseTime < MinRaiseMs
          THEN {"too_fast_raising"} ELSE {})
    \cup (IF phase = "lowering" /\ e.currentRep.peakAngle < MinPeak * Scale
          THEN {"insufficient_height"} ELSE {})

\* Seeded fault of detectErrorsCall: the call also measures the raise time.
detectErrorsCall_MeasuresRaise(e, angles, phase, now) ==
    [e EXCEPT !.currentErrors = detectErrors(e, angles, phase),
              !.currentRep.raiseTime = now - e.currentRep.startTime]

\* detectErrors as a call on engine e: what it leaves of the engine
\* (this.currentErrors = errors, line 309)
detectErrorsCall(e, angles, phase, now) ==
    [e EXCEPT !.currentErrors = detectErrors(e, angles, phase)]

\* Seeded faults of updateRepCount.
\* The count steps the wrong way.
updateRepCount_Decrement(e, phase) ==
    IF phase = "resting" /\ e.previousPhase = "lowering"
    THEN [e EXCEPT !.repCount = IF e.currentRep.peakAngle >= MinPeak * Scale
                                THEN @ - 1 ELSE @,
                   !.currentRep = EmptyRep]
    ELSE e

\* The rep is counted on reaching the hold position, on every such frame.
updateRepCount_OnHolding(e, phase) ==
    IF phase = "holding"
    THEN [e EXCEPT !.repCount = @ + 1]
    ELSE IF phase = "resting" /\ e.previousPhase = "lowering"
    THEN [e EXCEPT !.currentRep = EmptyRep]
    ELSE e

\* Any return to rest counts, whatever came before it.
updateRepCount_AnyReturn(e, phase) ==
    IF phase = "resting" /\ e.previousPhase # "resting"
    THEN [e EXCEPT !.repCount = @ + 1, !.currentRep = EmptyRep]
    ELSE e

\* The rep record is rebuilt the way reset() builds it.
updateRepCount_ShortRecord(e, phase) ==
    IF phase = "resting" /\ e.previousPhase = "lowering"
    THEN [e EXCEPT !.repCount = IF e.currentRep.peakAngle >= MinPeak * Scale
                                THEN @ + 1 ELSE @,
                   !.currentRep = ResetRep]
    ELSE e

updateRepCount(e, phase) ==
    IF phase = "resting" /\ e.previousPhase = "lowering"
    THEN [e EXCEPT !.repCount = IF e.currentRep.peakAngle >= MinPeak * Scale
                                THEN @ + 1 ELSE @,
                   !.currentRep = EmptyRep]
    ELSE e

\* Seeded fault of errorPenalties: asymmetric movement costs 15, not 20.
errorPenalties_Asymmetric15(error) ==
    CASE error = "shoulder_shrug_left" -> 10
      [] error = "shoulder_shrug_right" -> 10
      [] error = "arm_too_high_left" -> 15
      [] error = "arm_too_high_right" -> 15
      [] error = "asymmetric_movement" -> 15
      [] error = "elbow_bent_left" -> 10
      [] error = "elbow_bent_right" -> 10
      [] error = "too_fast_raising" -> 15
      [] error = "insufficient_height" -> 25
      [] OTHER -> 10

errorPenalties(error) ==
    CASE error = "shoulder_shrug_left" -> 10
      [] error = "shoulder_shrug_right" -> 10
      [] error = "arm_too_high_left" -> 15
      [] error = "arm_too_high_right" -> 15
      [] error = "asymmetric_movement" -> 20
      [] error = "elbow_bent_left" -> 10
      [] error = "elbow_bent_right" -> 10
      [] error = "too_fast_raising" -> 15
      [] error = "insufficient_height" -> 25
      [] OTHER -> 10

RECURSIVE PenaltySum(_)
PenaltySum(errors) ==
    IF errors = {} THEN 0
    ELSE LET x == CHOOSE y \in errors : TRUE
         IN errorPenalties(x) + PenaltySum(errors \ {x})

\* Seeded fault of calculateFormScore: the score is not clamped at 0.
calculateFormScore_NoClamp(errors) == 100 - PenaltySum(errors)

calculateFormScore(errors) ==
    LET score == 100 - PenaltySum(errors)
    IN IF score < 0 THEN 0 ELSE score

\* toFixed(0) of averageArm = (leftArm + rightArm) / 2
ShownDegrees(angles) == (angles.leftArm + angles.rightArm + 1) \div 2

\* Seeded fault of generateFeedback: asymmetric movement is reported before
\* an arm that is too high.
generateFeedback_AsymmetricFirst(errors, phase, angles) ==
    IF errors = {}
    THEN CASE phase = "resting" -> [msg |-> "Ready - Arms at sides", deg |-> 0]
           [] phase = "raising" -> [msg |-> "Good form - Keep going!", deg |-> ShownDegrees(angles)]
           [] phase = "holding" -> [msg |-> "Perfect! Hold briefly", deg |-> ShownDegrees(angles)]
           [] phase = "lowering" -> [msg |-> "Great control - Lower slowly", deg |-> 0]
           [] OTHER -> [msg |-> "Excellent form!", deg |-> 0]
    ELSE IF "shoulder_shrug_left" \in errors \/ "shoulder_shrug_right" \in errors
    THEN [msg |-> "Relax shoulders - don't shrug", deg |-> 0]
    ELSE IF "asymmetric_movement" \in errors
    THEN [msg |-> "Keep both arms at same height", deg |-> 0]
    ELSE IF "arm_too_high_left" \in errors \/ "arm_too_high_right" \in errors
    THEN [msg |-> "Don't raise above shoulders", deg |-> 0]
    ELSE IF "elbow_bent_left" \in errors \/ "elbow_bent_right" \in errors
    THEN [msg |-> "Keep arms straighter", deg |-> 0]
    ELSE IF "too_fast_raising" \in errors
    THEN [msg |-> "Slower movement - 2-3 seconds up", deg |-> 0]
    ELSE IF "insufficient_height" \in errors
    THEN [msg |-> "Raise arms to shoulder height", deg |-> 0]
    ELSE [msg |-> "Adjust your form", deg |-> 0]

generateFeedback(errors, phase, angles) ==
    IF errors = {}
    THEN CASE phase = "resting" -> [msg |-> "Ready - Arms at sides", deg |-> 0]
           [] phase = "raising" -> [msg |-> "Good form - Keep going!", deg |-> ShownDegrees(angles)]
           [] phase = "holding" -> [msg |-> "Perfect! Hold briefly", deg |-> ShownDegrees(angles)]
           [] phase = "lowering" -> [msg |-> "Great control - Lower slowly", deg |-> 0]
           [] OTHER -> [msg |-> "Excellent form!", deg |-> 0]
    ELSE IF "shoulder_shrug_left" \in errors \/ "shoulder_shrug_right" \in errors
    THEN [msg |-> "Relax shoulders - don't shrug", deg |-> 0]
    ELSE IF "arm_too_high_left" \in errors \/ "arm_too_high_right" \in errors
    THEN [msg |-> "Don't raise above shoulders", deg |-> 0]
    ELSE IF "asymmetric_movement" \in errors
    THEN [msg |-> "Keep both arms at same height", deg |-> 0]
    ELSE IF "elbow_bent_left" \in errors \/ "elbow_bent_right" \in errors
    THEN [msg |-> "Keep arms straighter", deg |-> 0]
    ELSE IF "too_fast_raising" \in errors
    THEN [msg |-> "Slower movement - 2-3 seconds up", deg |-> 0]
    ELSE IF "insufficient_height" \in errors
    THEN [msg |-> "Raise arms to shoulder height", deg |-> 0]
    ELSE [msg |-> "Adjust your form", deg |-> 0]

\* the accepted-frame path of analyze(): lines 59-83
analyzeAccepted(e, landmarks, now) ==
    LET angles == calculateArmAngles(landmarks)
        e1 == detectMovementPhase(e, angles, now)
        phase == e1.currentPhase
        errors == detectErrors(e1, angles, phase)
        e2 == [e1 EXCEPT !.currentErrors = errors]
        e3 == updateRepCount(e2, phase)
        score == calculateFormScore(errors)
        e4 == [e3 EXCEPT !.formScore = score]
    IN [engine |-> e4,
        returned |-> << [phase |-> phase,
                         angles |-> angles,
                         errors |-> errors,
                         repCount |-> e4.repCount,
                         formScore |-> score,
                         feedback |-> generateFeedback(errors, phase, angles),
                         holdDuration |-> e4.currentRep.holdDuration,
                         holdComplete |-> e4.currentRep.holdComplete] >>]

\* Seeded fault of analyze: the landmark count is not checked.
analyze_NoLengthCheck(e, landmarks, now) ==
    IF ~landmarks.present
    THEN [engine |-> e, returned |-> <<>>]
    ELSE analyzeAccepted(e, landmarks, now)

\* analyze(landmarks) on engine e at clock reading now:
\* the engine afterwards and the value returned (<<>> is null)
analyze(e, landmarks, now) ==
    IF ~landmarks.present \/ landmarks.length < MinLandmarks
    THEN [engine |-> e, returned |-> <<>>]
    ELSE analyzeAccepted(e, landmarks, now)

reset(e) ==
    [e EXCEPT !.currentPhase = "resting",
              !.previousPhase = "resting",
              !.repCount = 0,
              !.currentRep = ResetRep,
              !.leftArmHistory = <<>>,
              !.rightArmHistory = <<>>,
              !.currentErrors = {},
              !.formScore = 100,
              !.calibrated = FALSE]

----------------------------------------------------------------------------
(* The state machine *)

SetEngine(e) ==
    /\ currentPhase' = e.currentPhase
    /\ previousPhase' = e.previousPhase
    /\ repCount' = e.repCount
    /\ currentRep' = e.currentRep
    /\ leftArmHistory' = e.leftArmHistory
    /\ rightArmHistory' = e.rightArmHistory
    /\ currentErrors' = e.currentErrors
    /\ formScore' = e.formScore
    /\ calibrated' = e.calibrated

Init ==
    /\ currentPhase = NewEngine.currentPhase
    /\ previousPhase = NewEngine.previousPhase
    /\ repCount = NewEngine.repCount
    /\ currentRep = NewEngine.currentRep
    /\ leftArmHistory = NewEngine.leftArmHistory
    /\ rightArmHistory = NewEngine.rightArmHistory
    /\ currentErrors = NewEngine.currentErrors
    /\ formScore = NewEngine.formScore
    /\ calibrated = NewEngine.calibrated
    /\ clock = Tick
    /\ result = <<>>
    /\ fresh = <<>>
    /\ freshResult = <<>>
    /\ fed = 0
    /\ phasesReturned = <<>>
    /\ pending = <<>>
    /\ kept = <<>>
    /\ geometry = <<>>
    /\ voice = <<>>
    /\ audio = [enabled |-> TRUE, spoken |-> ""]
    /\ audioFeedback = [lastPhase |-> "", currentPhase |-> "", holdTimerActive |-> FALSE, holdTimerId |-> 0]
    /\ timers = {}
    /\ session = [exerciseActive |-> FALSE, repCount |-> 0, analysis |-> [state |-> "resting", repCount |-> 0], announced |-> <<>>]
    /\ voiceCommands = [isListening |-> FALSE, recognition |-> "idle", status |-> "", restarts |-> 0, started |-> FALSE, error |-> ""]
    /\ countdown = [enabled |-> TRUE, listened |-> TRUE, lastPhase |-> "", currentPhase |-> "", holdCountdownStarted |-> FALSE, holdCountdown |-> 0 - 1, lowerInstructionGiven |-> FALSE, analysis |-> [phase |-> "resting", holdDuration |-> 0, holdComplete |-> FALSE], fromRaising |-> FALSE, said |-> {}]
    /\ speech = [enabled |-> TRUE, lastFeedback |-> "", lastFeedbackTime |-> 0, lastErrorTime |-> 0, now |-> Epoch, handed |-> <<>>, errors |-> {}, recent |-> {}, errorAt |-> 0 - 1]
    /\ modular = [currentState |-> "resting", previousState |-> "resting", repCount |-> 0, holdStartTime |-> 0, lastTransitionTime |-> Epoch, validRep |-> FALSE, now |-> Epoch, changedAt |-> Epoch, held |-> FALSE]

\* one analyze(landmarks) call at clock reading now, on the engine and,
\* once reset() was called, on the second engine as well
Call(landmarks, now) ==
    /\ clock' = now
    /\ LET r == analyze(Engine, landmarks, now)
       IN /\ SetEngine(r.engine)
          /\ result' = r.returned
    /\ IF fresh = <<>>
       THEN UNCHANGED <<fresh, freshResult>>
       ELSE LET f == analyze(fresh[1], landmarks, now)
            IN /\ fresh' = <<f.engine>>
               /\ freshResult' = f.returned

AnalyzeFrame(landmarks, step) ==
    /\ clock + step <= MaxClock
    /\ Call(landmarks, clock + step)
    /\ UNCHANGED <<fed, phasesReturned>>
    /\ UNCHANGED hostVars

Analyze == \E landmarks \in Frames, step \in ClockSteps : AnalyzeFrame(landmarks, step)

\* reset(); from here on a newly constructed engine is fed the same frames
Reset ==
    /\ SetEngine(reset(Engine))
    /\ fresh' = <<NewEngine>>
    /\ freshResult' = <<>>
    /\ UNCHANGED <<clock, result, fed, phasesReturned>>
    /\ UNCHANGED hostVars

Next == Analyze \/ Reset

Spec == Init /\ [][Next]_vars

----------------------------------------------------------------------------
(* The synthetic trace of the testable properties: ten valid frames, both   *)
(* arms at the sample's angle, fed to a new engine.                         *)

Trace == <<10, 10, 45, 70, 90, 95, 90, 70, 40, 10>>

TraceFrame(i) == Landmarks(33, Trace[i], Trace[i], 170, 170)

TraceStep(step) ==
    /\ fed < Len(Trace)
    /\ Call(TraceFrame(fed + 1), clock + step)
    /\ fed' = fed + 1
    /\ phasesReturned' =
          IF phasesReturned # <<>>
             /\ phasesReturned[Len(phasesReturned)] = result'[1].phase
          THEN phasesReturned
          ELSE Append(phasesReturned, result'[1].phase)
    /\ UNCHANGED hostVars

FeedTrace == \E step \in ClockSteps : TraceStep(step)

SpecTrace == Init /\ [][FeedTrace]_vars

----------------------------------------------------------------------------
(* Frames at the thresholds of detectErrors, fed to a new engine.           *)

\* no boundary frame is analysed after this clock reading
BoundaryMaxClock == 6000

BoundaryFrames ==
    { Landmarks(33, 10, 10, 170, 170),
      Landmarks(33, 10, 30, 139, 170),
      Landmarks(33, 50, 65, 140, 139),
      Landmarks(33, 50, 66, 170, 170),
      Landmarks(33, 90, 90, 170, 140),
      Landmarks(33, 110, 111, 170, 170),
      Landmarks(33, 111, 110, 139, 139),
      Landmarks(33, 130, 95, 170, 170) }

BoundaryFrame(landmarks) ==
    /\ clock + Tick <= BoundaryMaxClock
    /\ Call(landmarks, clock + Tick)
    /\ UNCHANGED <<fed, phasesReturned>>
    /\ UNCHANGED hostVars

AnalyzeBoundary == \E landmarks \in BoundaryFrames : BoundaryFrame(landmarks)

SpecBoundary == Init /\ [][AnalyzeBoundary]_vars

----------------------------------------------------------------------------
(* Frames under, between, in and over the bands of detectMovementPhase,     *)
(* fed to a new engine.                                                     *)

BandFrames ==
    { Landmarks(33, 10, 10, 170, 170),
      Landmarks(33, 30, 30, 170, 170),
      Landmarks(33, 50, 50, 170, 170),
      Landmarks(33, 90, 90, 170, 170),
      Landmarks(33, 100, 100, 170, 170),
      Landmarks(33, 170, 170, 170, 170) }

AnalyzeBands == \E landmarks \in BandFrames : BoundaryFrame(landmarks)

SpecBands == Init /\ [][AnalyzeBands]_vars

----------------------------------------------------------------------------
(* analyze() on an accepted frame, one call of its body at a time:          *)
(* detectMovementPhase, then detectErrors, then the rest.                   *)

StepDetectPhase(landmarks) ==
    /\ pending = <<>>
    /\ clock + Tick <= BoundaryMaxClock
    /\ clock' = clock + Tick
    /\ LET angles == calculateArmAngles(landmarks)
       IN /\ SetEngine(detectMovementPhase(Engine, angles, clock'))
          /\ pending' = << [angles |-> angles, stage |-> "detectErrors",
                            errors |-> {}] >>
    /\ UNCHANGED <<result, fresh, freshResult, fed, phasesReturned, kept>>
    /\ UNCHANGED pageVars

StepDetectErrors ==
    /\ pending # <<>> /\ pending[1].stage = "detectErrors"
    /\ LET e == detectErrorsCall(Engine, pending[1].angles, currentPhase, clock)
       IN /\ SetEngine(e)
          /\ pending' = << [pending[1] EXCEPT !.stage = "updateRepCount",
                                              !.errors = e.currentErrors] >>
    /\ UNCHANGED <<clock, result, fresh, freshResult, fed, phasesReturned, kept>>
    /\ UNCHANGED pageVars

StepFinish ==
    /\ pending # <<>> /\ pending[1].stage = "updateRepCount"
    /\ LET phase == currentPhase
           errors == pending[1].errors
           e3 == updateRepCount(Engine, phase)
           score == calculateFormScore(errors)
       IN /\ SetEngine([e3 EXCEPT !.formScore = score])
          /\ result' = << [phase |-> phase,
                           angles |-> pending[1].angles,
                           errors |-> errors,
                           repCount |-> e3.repCount,
                           formScore |-> score,
                           feedback |-> generateFeedback(errors, phase, pending[1].angles),
                           holdDuration |-> e3.currentRep.holdDuration,
                           holdComplete |-> e3.currentRep.holdComplete] >>
    /\ pending' = <<>>
    /\ UNCHANGED <<clock, fresh, freshResult, fed, phasesReturned, kept>>
    /\ UNCHANGED pageVars

AnalyzeInSteps ==
    \/ \E landmarks \in BoundaryFrames : StepDetectPhase(landmarks)
    \/ StepDetectErrors
    \/ StepFinish

SpecSteps == Init /\ [][AnalyzeInSteps]_vars

----------------------------------------------------------------------------
(* A result in the hands of the caller while the engine goes on.            *)

\* Seeded fault of ResultLive: the hold fields are read from the rep record
\* of the analyzer whenever the result is looked at.
ResultLive_HoldFields == {"holdDuration", "holdComplete"}

\* the fields of a returned result that are the analyzer's own objects and
\* not values of the moment of the return: none, the result is a new object
\* of strings and numbers, the angles object of this call and Array.from
ResultLive == {}

\* what the caller reads in result r now
Seen(r) ==
    [r EXCEPT !.holdDuration = IF "holdDuration" \in ResultLive
                               THEN currentRep.holdDuration ELSE @,
              !.holdComplete = IF "holdComplete" \in ResultLive
                               THEN currentRep.holdComplete ELSE @]

\* the caller keeps the result of the last call
KeepResult ==
    /\ result # <<>> /\ kept = <<>>
    /\ kept' = result
    /\ UNCHANGED <<engineVars, clock, result, fresh, freshResult, fed,
                   phasesReturned, pending>>
    /\ UNCHANGED pageVars

AnalyzeKeeping ==
    \/ \E landmarks \in ValidFrames : BoundaryFrame(landmarks)
    \/ Reset
    \/ KeepResult

SpecSnapshot == Init /\ [][AnalyzeKeeping]_vars

----------------------------------------------------------------------------
(* The angle functions on landmark positions.  Positions are points of a    *)
(* grid, y growing downwards as in the image; angles are thousandths of a   *)
(* degree.                                                                  *)

\* the largest coordinate of the grid
MaxCoordinate == 2

Points == [x : 0..MaxCoordinate, y : 0..MaxCoordinate]

Abs(n) == IF n < 0 THEN 0 - n ELSE n

\* Math.atan2(a, b) * 180 / Math.PI for a, b >= 0: the ratios of the grid
\* (atan2(0, 0) is 0)
AtanQuadrant(a, b) ==
    CASE a = 0 -> 0
      [] a # 0 /\ b = 0 -> 90000
      [] a # 0 /\ a = b -> 45000
      [] a # 0 /\ 3 * a = b -> 18435
      [] a # 0 /\ 2 * a = b -> 26565
      [] a # 0 /\ 3 * a = 2 * b -> 33690
      [] b # 0 /\ 2 * a = 3 * b -> 56310
      [] b # 0 /\ a = 2 * b -> 63435
      [] b # 0 /\ a = 3 * b -> 71565

\* Math.atan2(y, x) * 180 / Math.PI, in (-180, 180]
Atan2(y, x) ==
    LET base == AtanQuadrant(Abs(y), Abs(x))
        turned == IF x < 0 THEN 180000 - base ELSE base
    IN IF y < 0 THEN 0 - turned ELSE turned

\* Seeded fault of calculateArmAngleFromBody: the quarter turn of an arm at
\* or above the shoulder is left out.
calculateArmAngleFromBody_NoQuarterTurn(shoulder, elbow, wrist, hip) ==
    LET deltaX == Abs(wrist.x - shoulder.x)
        deltaY == Abs(wrist.y - shoulder.y)
        angle == IF wrist.y > shoulder.y
                 THEN AtanQuadrant(deltaX, deltaY)
                 ELSE AtanQuadrant(deltaY, deltaX)
    IN IF angle < 0 THEN 0 ELSE IF angle > 180000 THEN 180000 ELSE angle

calculateArmAngleFromBody(shoulder, elbow, wrist, hip) ==
    LET deltaX == Abs(wrist.x - shoulder.x)
        deltaY == Abs(wrist.y - shoulder.y)
        angle == IF wrist.y > shoulder.y
                 THEN AtanQuadrant(deltaX, deltaY)
                 ELSE 90000 + AtanQuadrant(deltaY, deltaX)
    IN IF angle < 0 THEN 0 ELSE IF angle > 180000 THEN 180000 ELSE angle

calculateElbowAngle(shoulder, elbow, wrist) ==
    LET turn == Atan2(wrist.y - elbow.y, wrist.x - elbow.x)
                - Atan2(shoulder.y - elbow.y, shoulder.x - elbow.x)
        angle == Abs(turn)
    IN IF angle > 180000 THEN 360000 - angle ELSE angle

\* calculateAngleBetweenPoints of the modular analyzer: the angle at p2
\* between p1 and p3.  The cosine is dotProduct / (magnitude1 * magnitude2),
\* which is 0 / 0, not a number, when a vector has no length; Math.min and
\* Math.max pass a NaN on, and so does Math.acos.  Otherwise the arc cosine
\* is the angle between the two directions.
calculateAngleBetweenPoints(p1, p2, p3) ==
    LET x1 == p1.x - p2.x
        y1 == p1.y - p2.y
        x2 == p3.x - p2.x
        y2 == p3.y - p2.y
        squares == (x1 * x1 + y1 * y1) * (x2 * x2 + y2 * y2)
        turn == Abs(Atan2(y1, x1) - Atan2(y2, x2))
    IN IF squares = 0 THEN NaN
       ELSE IF turn > 180000 THEN 360000 - turn ELSE turn

\* the angles of one side of the body, from its four landmarks
MeasureSide(shoulder, elbow, wrist, hip) ==
    /\ geometry' = << [shoulder |-> shoulder, elbow |-> elbow,
                       wrist |-> wrist, hip |-> hip,
                       arm |-> calculateArmAngleFromBody(shoulder, elbow, wrist, hip),
                       elbowAngle |-> calculateElbowAngle(shoulder, elbow, wrist),
                       shoulderJoint |-> calculateAngleBetweenPoints(hip, shoulder, elbow),
                       elbowJoint |-> calculateAngleBetweenPoints(shoulder, elbow, wrist)] >>
    /\ UNCHANGED analyzerVars
    /\ UNCHANGED <<voice, audio, audioFeedback, timers, session, voiceCommands,
                   countdown, speech,
                   modular>>

Measure ==
    /\ geometry = <<>>
    /\ \E shoulder \in Points, elbow \in Points, wrist \in Points, hip \in Points :
          MeasureSide(shoulder, elbow, wrist, hip)

SpecGeometry == Init /\ [][Measure]_vars

----------------------------------------------------------------------------
(* Voice commands.  A transcript is the sequence of its words, lower case   *)
(* and trimmed; a confidence is in hundredths.                              *)

\* this.confidenceThreshold = 0.7
confidenceThreshold == 70

\* this.recognition.maxAlternatives
maxAlternatives == 3

\* this.commands, in the order of their definition
commands ==
    << [words |-> <<"start", "camera">>, run |-> "startCamera"],
       [words |-> <<"stop", "camera">>, run |-> "stopCamera"],
       [words |-> <<"camera", "on">>, run |-> "startCamera"],
       [words |-> <<"camera", "off">>, run |-> "stopCamera"],
       [words |-> <<"turn", "on", "camera">>, run |-> "startCamera"],
       [words |-> <<"turn", "off", "camera">>, run |-> "stopCamera"],
       [words |-> <<"start", "exercise">>, run |-> "startExercise"],
       [words |-> <<"stop", "exercise">>, run |-> "stopExercise"],
       [words |-> <<"begin", "exercise">>, run |-> "startExercise"],
       [words |-> <<"end", "exercise">>, run |-> "stopExercise"],
       [words |-> <<"start", "workout">>, run |-> "startExercise"],
       [words |-> <<"stop", "workout">>, run |-> "stopExercise"] >>

\* what the recogniser may hear
Transcripts ==
    { <<"start", "camera">>, <<"stop", "exercise">>,
      <<"please", "stop", "camera", "now">>, <<"camera">>, <<"hello">>, <<>> }

Confidences == {30, 69, 70, 95}

Alternatives == [transcript : Transcripts, confidence : Confidences]

\* the alternatives of a recognition result, most likely first
AlternativeLists ==
    UNION { [1..n -> Alternatives] : n \in 1..maxAlternatives }

\* String.prototype.includes, word by word
Includes(text, part) ==
    \E i \in 0..Len(text) :
        /\ i + Len(part) <= Len(text)
        /\ SubSeq(text, i + 1, i + Len(part)) = part

\* matchCommand(transcript): the commands it executes, <<>> for none
matchCommand(transcript) ==
    LET exact == { i \in 1..Len(commands) : commands[i].words = transcript }
        partial == { i \in 1..Len(commands) :
                       \/ Includes(transcript, commands[i].words)
                       \/ Includes(commands[i].words, transcript) }
        first(set) == CHOOSE i \in set : \A j \in set : i <= j
    IN IF exact # {} THEN << commands[first(exact)].run >>
       ELSE IF partial # {} THEN << commands[first(partial)].run >>
       ELSE <<>>

\* processVoiceInput(event) for the last result of the event: the
\* alternative it hands to matchCommand (0 for none) and the commands run
processVoiceInput(lastResult) ==
    LET alternatives == lastResult.alternatives
        above == { i \in 1..Len(alternatives) :
                     alternatives[i].confidence >= confidenceThreshold }
        chosen == IF above # {}
                  THEN CHOOSE i \in above : \A j \in above : i <= j
                  ELSE Len(alternatives)
    IN IF ~lastResult.isFinal
       THEN [chosen |-> 0, executed |-> <<>>]
       ELSE [chosen |-> chosen,
             executed |-> matchCommand(alternatives[chosen].transcript)]

\* recognition.onresult
OnResult(lastResult) ==
    /\ voice' = << [lastResult |-> lastResult,
                    outcome |-> processVoiceInput(lastResult)] >>
    /\ UNCHANGED analyzerVars
    /\ UNCHANGED <<geometry, audio, audioFeedback, timers, session, voiceCommands,
                   countdown, speech,
                   modular>>

Recognise ==
    /\ voice = <<>>
    /\ \E alternatives \in AlternativeLists, isFinal \in BOOLEAN :
          OnResult([alternatives |-> alternatives, isFinal |-> isFinal])

SpecVoice == Init /\ [][Recognise]_vars

----------------------------------------------------------------------------
(* The scorer and the feedback composer on their own: lines 72-83 of        *)
(* analyze() for any set of the error tags of the penalty table, any phase  *)
(* and the angles of any valid frame, once, on a new engine.                *)

ErrorTags ==
    { "shoulder_shrug_left", "shoulder_shrug_right",
      "arm_too_high_left", "arm_too_high_right", "asymmetric_movement",
      "elbow_bent_left", "elbow_bent_right",
      "too_fast_raising", "insufficient_height" }

ScoreErrors(errors, phase, landmarks) ==
    LET angles == calculateArmAngles(landmarks)
        score == calculateFormScore(errors)
    IN /\ result = <<>>
       /\ currentErrors' = errors
       /\ formScore' = score
       /\ currentPhase' = phase
       /\ result' = << [phase |-> phase,
                        angles |-> angles,
                        errors |-> errors,
                        repCount |-> repCount,
                        formScore |-> score,
                        feedback |-> generateFeedback(errors, phase, angles),
                        holdDuration |-> currentRep.holdDuration,
                        holdComplete |-> currentRep.holdComplete] >>
       /\ UNCHANGED <<previousPhase, repCount, currentRep, leftArmHistory,
                      rightArmHistory, calibrated, clock, fresh, freshResult,
                      fed, phasesReturned>>
       /\ UNCHANGED hostVars

Score ==
    \E errors \in SUBSET ErrorTags, phase \in Phases, landmarks \in ValidFrames :
        ScoreErrors(errors, phase, landmarks)

SpecScore == Init /\ [][Score]_vars

----------------------------------------------------------------------------
(* What a step and a state show of the last call *)

\* a step that is an analyze() call: every call reads a later clock
FrameStep == clock' # clock

\* a step that is an analyze() call on a frame the engine accepted
AcceptedStep == clock' # clock /\ result' # <<>>

\* a step that is a reset() call
ResetStep == clock' = clock

\* the smoothed angle (times Scale) the last accepted frame was classified by
SmoothedNow ==
    IF leftArmHistory = <<>> THEN 0
    ELSE SmoothedAngle(leftArmHistory, rightArmHistory)

InTargetBand(a) == a >= TargetMin * Scale /\ a <= TargetMax * Scale

----------------------------------------------------------------------------
(* Claims *)

\* C1: over analyze() calls, on accepted and on malformed frames alike,
\* repCount never decreases; only reset() lowers it, and reset() leaves it 0.
C1_RepCountNeverDecreases ==
    [][ /\ FrameStep => repCount' >= repCount
        /\ repCount' < repCount => ResetStep
        /\ ResetStep => repCount' = 0 ]_vars

\* C1 witness: after a reset(), a rep was counted again.
C1_Witness == fresh # <<>> /\ repCount = 1 /\ result # <<>>

\* C2: a frame changes repCount only when it takes the phase from LOWERING
\* to RESTING, and then by exactly one; frames that stay in HOLDING, or in
\* any other phase, and every other transition leave it alone.
C2_CountOnlyOnLoweringToResting ==
    [][ FrameStep /\ repCount' # repCount
          => /\ currentPhase = "lowering"
             /\ currentPhase' = "resting"
             /\ repCount' = repCount + 1 ]_vars

\* C2 witness: the frame after a counted rep stayed in RESTING and the count
\* stayed at one.
C2_Witness ==
    /\ repCount = 1
    /\ currentPhase = "resting" /\ previousPhase = "resting"
    /\ result # <<>> /\ result[1].repCount = 1

\* C3 (as claimed): after the ten samples the count is 1 and the phases
\* returned were RESTING, RAISING, HOLDING, LOWERING, RESTING.
C3_TraceCountsOneRep ==
    fed = Len(Trace)
      => /\ repCount = 1
         /\ phasesReturned = <<"resting", "raising", "holding", "lowering", "resting">>

\* C3 (amended): the five-sample smoothing leaves the smoothed angle at 61
\* degrees on the tenth sample, so the run ends in LOWERING with no rep
\* counted: the phases returned are RESTING, RAISING, HOLDING, LOWERING.
C3_TraceEndsLowering ==
    fed = Len(Trace)
      => /\ repCount = 0
         /\ currentPhase = "lowering"
         /\ SmoothedNow = 61 * Scale
         /\ phasesReturned = <<"resting", "raising", "holding", "lowering">>

\* C3 witness: the whole trace was fed, over more than 12 s of clock time.
C3_Witness == fed = Len(Trace) /\ clock >= 12 * Tick /\ result # <<>>

\* C4: HOLDING is entered only on a frame whose smoothed angle lies in the
\* target band, so a raise that stays below it never shows HOLDING; the
\* RAISING -> RESTING frame that ends such a raise leaves repCount as it
\* was; and in RESTING and RAISING the rep record holds no peak angle, so
\* nothing of the aborted raise is there for a later frame to count.
C4_AbortedRaiseNotCounted ==
    /\ [][ AcceptedStep /\ currentPhase # "holding" /\ currentPhase' = "holding"
             => InTargetBand(SmoothedNow') ]_vars
    /\ [][ FrameStep /\ currentPhase = "raising" /\ currentPhase' = "resting"
             => repCount' = repCount ]_vars
    /\ [](currentPhase \in {"resting", "raising"} => currentRep.peakAngle = 0)

\* C4 witness: a raise has just been aborted: the last frame went from
\* RAISING back to RESTING, after an earlier rep had been counted or not.
C4_Witness ==
    /\ currentPhase = "resting" /\ previousPhase = "raising"
    /\ result # <<>> /\ result[1].phase = "resting"
    /\ currentRep.startTime > 0

\* C5 (as claimed): once reset() was called, every frame returns from the
\* engine exactly what it returns from a newly constructed engine fed the
\* same frames at the same clock readings.
C5_ResetThenSameResults ==
    fresh # <<>> /\ freshResult # <<>> => result = freshResult

\* C6: analyze() on a missing frame or on a frame of fewer than 33 landmarks
\* returns null and leaves every field of the engine as it was.
C6_MalformedFrameIgnored ==
    [][ \A landmarks \in MalformedFrames, step \in ClockSteps :
          AnalyzeFrame(landmarks, step)
            => result' = <<>> /\ UNCHANGED engineVars ]_vars

\* C6 witness: a malformed frame arrived in the middle of a rep (the engine
\* in HOLDING, its history not empty) and null was returned.
C6_Witness ==
    /\ result = <<>>
    /\ currentPhase = "holding"
    /\ Len(leftArmHistory) >= 2
    /\ clock > Tick

\* C7 (as claimed): an accepted frame leaves currentPhase as it was or moves
\* it along one of the five transitions RESTING->RAISING, RAISING->HOLDING,
\* RAISING->RESTING, HOLDING->LOWERING, LOWERING->RESTING.
C7_OnlyFiveTransitions ==
    [][ AcceptedStep
          => \/ currentPhase' = currentPhase
             \/ <<currentPhase, currentPhase'>> \in
                  { <<"resting", "raising">>, <<"raising", "holding">>,
                    <<"raising", "resting">>, <<"holding", "lowering">>,
                    <<"lowering", "resting">> } ]_vars

\* C8 (as claimed): in HOLDING, on the frame at which the time since the
\* hold began reaches 3 s, the phase becomes LOWERING, also when the
\* smoothed angle is still inside the target band.
C8_HoldTimeoutLowers ==
    [][ /\ AcceptedStep
        /\ currentPhase = "holding"
        /\ currentRep.holdStartTime > 0
        /\ clock' - currentRep.holdStartTime >= HoldMs
        /\ InTargetBand(SmoothedNow')
        => currentPhase' = "lowering" ]_vars

\* C9 (as claimed): HOLDING is left at a lower angle than it is entered at:
\* in HOLDING a smoothed angle under the entry bound of 80 degrees, but not
\* under the qualifying height of 70, keeps the phase HOLDING, and a phase
\* that has just left HOLDING for LOWERING does not go back to HOLDING.
C9_HoldingHysteresis ==
    /\ [][ /\ AcceptedStep
           /\ currentPhase = "holding"
           /\ SmoothedNow' >= MinPeak * Scale
           /\ SmoothedNow' < TargetMin * Scale
           => currentPhase' = "holding" ]_vars
    /\ [][ /\ AcceptedStep
           /\ previousPhase = "holding"
           /\ currentPhase = "lowering"
           => currentPhase' # "holding" ]_vars

\* C10: on every frame that takes the phase from LOWERING to RESTING,
\* repCount goes up by one if the rep's peak angle is at least 70 degrees and
\* stays as it was otherwise, and the rep record afterwards is the empty
\* record: the times, the peak angle and the hold duration 0, holdComplete
\* false.
C10_RepClosesAtLoweringToResting ==
    [][ FrameStep /\ currentPhase = "lowering" /\ currentPhase' = "resting"
          => /\ repCount' = IF currentRep.peakAngle >= MinPeak * Scale
                            THEN repCount + 1 ELSE repCount
             /\ currentRep' = EmptyRep ]_vars

\* C10 witness: a rep begun after reset() (with the record reset() leaves)
\* has just closed: the frame went from LOWERING to RESTING, the count and the
\* returned hold fields show the closed rep.
C10_Witness ==
    /\ fresh # <<>>
    /\ currentPhase = "resting" /\ previousPhase = "lowering"
    /\ repCount = 1 /\ currentRep = EmptyRep
    /\ result # <<>> /\ result[1].holdDuration = 0
    /\ result[1].holdComplete = "false"

\* C11: whatever form errors are active together, the formScore returned
\* and the formScore stored in the analyzer lie in [0,100].
C11_FormScoreInRange ==
    /\ formScore >= 0 /\ formScore <= 100
    /\ result # <<>> => result[1].formScore >= 0 /\ result[1].formScore <= 100

\* C11 witness: the penalties of the active errors add up to more than 100
\* and the score returned is 0.
C11_Witness ==
    /\ result # <<>>
    /\ PenaltySum(result[1].errors) > 100
    /\ result[1].formScore = 0 /\ formScore = 0


\* C12: within a rep currentRep.peakAngle never decreases from one frame to
\* the next; the frame that closes a rep (LOWERING to RESTING) and reset()
\* leave it 0.
C12_PeakOnlyGrowsWithinRep ==
    [][ /\ FrameStep /\ ~(currentPhase = "lowering" /\ currentPhase' = "resting")
           => currentRep'.peakAngle >= currentRep.peakAngle
        /\ AcceptedStep /\ currentPhase = "lowering" /\ currentPhase' = "resting"
           => currentRep'.peakAngle = 0
        /\ ResetStep => currentRep'.peakAngle = 0 ]_vars

\* C12 witness: a frame in the target band whose smoothed angle is under the
\* peak the rep already reached; the peak is kept.
C12_Witness ==
    /\ currentPhase = "holding" /\ previousPhase = "holding"
    /\ InTargetBand(SmoothedNow)
    /\ currentRep.peakAngle > SmoothedNow

\* C13: currentRep.peakAngle is the running maximum of the smoothed angle
\* over the frames of the rep: the frame of the RESTING to RAISING transition
\* starts it at that frame's smoothed angle, and every later frame of the rep
\* leaves it at the larger of the old peak and the frame's smoothed angle,
\* in the target band, under it or over it.
C13_PeakIsMaximumOfRep ==
    [][ AcceptedStep =>
          /\ currentPhase = "resting" /\ currentPhase' = "raising"
             => currentRep'.peakAngle = SmoothedNow'
          /\ currentPhase # "resting" /\ currentPhase' # "resting"
             => currentRep'.peakAngle =
                   IF SmoothedNow' > currentRep.peakAngle
                   THEN SmoothedNow' ELSE currentRep.peakAngle ]_vars

\* C14: every frame that takes the phase from RESTING to RAISING sets
\* currentRep.startTime to the clock reading of that frame, whatever the
\* phase was two frames earlier.
C14_StartTimeSetOnEveryRaise ==
    [][ AcceptedStep /\ currentPhase = "resting" /\ currentPhase' = "raising"
          => currentRep'.startTime = clock' ]_vars

\* C15: on the frame that takes the phase from RAISING to HOLDING, when less
\* than MinRaiseMs passed since the rep's RESTING to RAISING transition,
\* too_fast_raising is among the errors returned.  (startTime, when set, is
\* the clock reading of a RESTING to RAISING transition of this rep or of an
\* earlier aborted raise, so the raise took at most clock' - startTime.)
C15_FastRaiseReported ==
    [][ /\ AcceptedStep
        /\ currentPhase = "raising" /\ currentPhase' = "holding"
        /\ currentRep.startTime > 0
        /\ clock' - currentRep.startTime < MinRaiseMs
        => "too_fast_raising" \in result'[1].errors ]_vars

\* C16: insufficient_height is among the errors a frame returns exactly when
\* the frame's phase is LOWERING and the peak of the rep is under MinPeak.
C16_InsufficientHeightIff ==
    [][ AcceptedStep =>
          ( "insufficient_height" \in result'[1].errors
            <=> ( /\ result'[1].phase = "lowering"
                  /\ currentRep'.peakAngle < MinPeak * Scale ) ) ]_vars

\* C16 witness: a LOWERING frame of a rep whose peak reached MinPeak; the
\* error is not returned.
C16_Witness ==
    /\ result # <<>> /\ result[1].phase = "lowering"
    /\ currentPhase = "lowering"
    /\ currentRep.peakAngle >= MinPeak * Scale
    /\ "insufficient_height" \notin result[1].errors

\* C17: asymmetric_movement is among the errors of a frame exactly when the
\* left and right elevation angles differ by more than SymmetryTolerance and
\* the frame's phase is RAISING or HOLDING; a difference of exactly the
\* tolerance is no error, and no difference is one in RESTING or LOWERING.
C17_AsymmetricIff ==
    result # <<>> =>
        LET r == result[1]
            diff == IF r.angles.leftArm >= r.angles.rightArm
                    THEN r.angles.leftArm - r.angles.rightArm
                    ELSE r.angles.rightArm - r.angles.leftArm
            flagged == "asymmetric_movement" \in r.errors
        IN /\ flagged <=> (diff > SymmetryTolerance /\ r.phase \in {"raising", "holding"})
           /\ diff = SymmetryTolerance => ~flagged
           /\ r.phase \in {"resting", "lowering"} => ~flagged

\* C17 witness: a RAISING or HOLDING frame whose arms differ by exactly the
\* tolerance, not flagged.
C17_Witness ==
    /\ result # <<>>
    /\ result[1].phase \in {"raising", "holding"}
    /\ result[1].angles.rightArm - result[1].angles.leftArm = SymmetryTolerance
    /\ "asymmetric_movement" \notin result[1].errors

\* C18: whatever the phase and the other defects, arm_too_high_<side> is among
\* the errors of a frame exactly when that side's elevation angle is over
\* ArmTooHigh, and elbow_bent_<side> exactly when that side's elbow angle is
\* under ElbowMin.
C18_PerSideThresholds ==
    result # <<>> =>
        LET r == result[1]
        IN /\ "arm_too_high_left" \in r.errors <=> r.angles.leftArm > ArmTooHigh
           /\ "arm_too_high_right" \in r.errors <=> r.angles.rightArm > ArmTooHigh
           /\ "elbow_bent_left" \in r.errors <=> r.angles.leftElbow < ElbowMin
           /\ "elbow_bent_right" \in r.errors <=> r.angles.rightElbow < ElbowMin

\* C18 witness: the left arm exactly at ArmTooHigh and not flagged, the right
\* arm one degree over it and flagged, in the same frame.
C18_Witness ==
    /\ result # <<>>
    /\ result[1].angles.leftArm = ArmTooHigh
    /\ result[1].angles.rightArm > ArmTooHigh
    /\ result[1].errors = {"arm_too_high_right"}

\* C19: the formScore of a frame, as returned and as stored, is 100 minus
\* the fixed penalties of the distinct errors of the frame, and 0 where that
\* is negative: it depends on the error set alone, not on the phase, the
\* angles, the history or the clock.
C19_ScoreFromErrorsAlone ==
    LET cost(errs, tag, penalty) == IF tag \in errs THEN penalty ELSE 0
        total(errs) ==
            cost(errs, "shoulder_shrug_left", 10) + cost(errs, "shoulder_shrug_right", 10)
            + cost(errs, "arm_too_high_left", 15) + cost(errs, "arm_too_high_right", 15)
            + cost(errs, "asymmetric_movement", 20)
            + cost(errs, "elbow_bent_left", 10) + cost(errs, "elbow_bent_right", 10)
            + cost(errs, "too_fast_raising", 15) + cost(errs, "insufficient_height", 25)
        expected(errs) == IF total(errs) > 100 THEN 0 ELSE 100 - total(errs)
    IN /\ formScore = expected(currentErrors)
       /\ result # <<>> => result[1].formScore = expected(result[1].errors)

\* C19 witness: three errors of different penalties in a phase that is not
\* RESTING; the score is 100 - 20 - 10 - 25.
C19_Witness ==
    /\ result # <<>>
    /\ result[1].errors = {"asymmetric_movement", "elbow_bent_left", "insufficient_height"}
    /\ result[1].phase = "lowering"
    /\ result[1].formScore = 45

\* C20: with errors (of the kinds detectErrors produces) the feedback is the
\* one message of the first kind present in the order arm too high,
\* asymmetric movement, elbow bent, too fast raising, insufficient height,
\* whatever the phase; with no error it is the encouragement of the frame's
\* phase.
C20_FeedbackByPriority ==
    result # <<>> =>
        LET r == result[1]
            order == << <<{"arm_too_high_left", "arm_too_high_right"},
                          "Don't raise above shoulders">>,
                        <<{"asymmetric_movement"}, "Keep both arms at same height">>,
                        <<{"elbow_bent_left", "elbow_bent_right"}, "Keep arms straighter">>,
                        <<{"too_fast_raising"}, "Slower movement - 2-3 seconds up">>,
                        <<{"insufficient_height"}, "Raise arms to shoulder height">> >>
            present == { i \in 1..Len(order) : order[i][1] \cap r.errors # {} }
            first == CHOOSE i \in present : \A j \in present : i <= j
            shrug == {"shoulder_shrug_left", "shoulder_shrug_right"} \cap r.errors # {}
        IN /\ r.errors # {} /\ ~shrug => r.feedback.msg = order[first][2]
           /\ r.errors = {} =>
                 r.feedback.msg = CASE r.phase = "resting" -> "Ready - Arms at sides"
                                    [] r.phase = "raising" -> "Good form - Keep going!"
                                    [] r.phase = "holding" -> "Perfect! Hold briefly"
                                    [] r.phase = "lowering" -> "Great control - Lower slowly"

\* C20 witness: an arm too high together with asymmetric movement and
\* insufficient height, in LOWERING; the message is that of the arm too high.
C20_Witness ==
    /\ result # <<>>
    /\ result[1].errors = {"arm_too_high_right", "asymmetric_movement", "insufficient_height"}
    /\ result[1].phase = "lowering"
    /\ result[1].feedback.msg = "Don't raise above shoulders"

\* C21: on a HOLDING frame the holdDuration returned is the clock time since
\* the phase last entered HOLDING: 0 on the frame that enters HOLDING, and on
\* a frame that stays in HOLDING the holdDuration of the frame before it plus
\* the clock time between the two frames.  (Stated for an engine whose hold
\* fields are numbers, which leaves out the frames after a reset().)
C21_HoldDurationSinceEntry ==
    [][ AcceptedStep /\ currentPhase' = "holding"
        /\ currentRep.holdStartTime # Undefined
        => /\ currentPhase # "holding" => result'[1].holdDuration = 0
           /\ ( /\ currentPhase = "holding"
                /\ result # <<>> /\ result[1].phase = "holding" )
              => result'[1].holdDuration = result[1].holdDuration + (clock' - clock) ]_vars

\* C22: an accepted frame appends its left and right angle to the two
\* histories and, once they hold more than historySize samples, drops the
\* oldest of each, so that from the empty histories of construction and of
\* reset() they hold the last min(n, historySize) angles in arrival order,
\* equally long; a frame that is not accepted leaves them alone; and the
\* phase is decided by the arithmetic mean of the samples held.
C22_HistoryIsLastFive ==
    [][ /\ AcceptedStep =>
             LET a == result'[1].angles
                 keep(h, x) == IF Len(h) < historySize
                               THEN Append(h, x) ELSE Tail(Append(h, x))
                 total == Sum(leftArmHistory') + Sum(rightArmHistory')
                 n == 2 * Len(leftArmHistory')
             IN /\ leftArmHistory' = keep(leftArmHistory, a.leftArm)
                /\ rightArmHistory' = keep(rightArmHistory, a.rightArm)
                /\ Len(leftArmHistory') = Len(rightArmHistory')
                /\ Len(leftArmHistory') <= historySize
                /\ total < RestingMax * n => currentPhase' = "resting"
                /\ total >= TargetMin * n /\ total <= TargetMax * n
                      => currentPhase' = "holding"
        /\ FrameStep /\ result' = <<>> =>
             UNCHANGED <<leftArmHistory, rightArmHistory>>
        /\ ResetStep => leftArmHistory' = <<>> /\ rightArmHistory' = <<>> ]_vars

\* C22 witness: full histories of unequal samples whose newest entries are
\* the angles of the frame just analysed, and whose mean, not the newest
\* sample, put the frame in the target band.
C22_Witness ==
    /\ result # <<>>
    /\ Len(leftArmHistory) = historySize /\ Len(rightArmHistory) = historySize
    /\ leftArmHistory[historySize] = result[1].angles.leftArm
    /\ rightArmHistory[historySize] = result[1].angles.rightArm
    /\ leftArmHistory[1] # leftArmHistory[historySize]
    /\ ~InTargetBand(result[1].angles.averageArm)
    /\ InTargetBand(SmoothedNow) /\ currentPhase = "holding"

\* C23: a smoothed angle strictly between the resting bound and the target
\* band leaves a RAISING or LOWERING phase as it is, and a smoothed angle
\* over the target band leaves every phase as it is.
C23_BetweenBandsKeepsPhase ==
    [][ AcceptedStep =>
          /\ ( /\ currentPhase \in {"raising", "lowering"}
               /\ SmoothedNow' > RestingMax * Scale
               /\ SmoothedNow' < TargetMin * Scale )
             => currentPhase' = currentPhase /\ result'[1].phase = currentPhase
          /\ SmoothedNow' > TargetMax * Scale
             => currentPhase' = currentPhase /\ result'[1].phase = currentPhase ]_vars

\* C23 witness: a frame in RAISING whose smoothed angle is over the target
\* band; the phase is still RAISING.
C23_Witness ==
    /\ result # <<>> /\ result[1].phase = "raising"
    /\ currentPhase = "raising" /\ previousPhase = "raising"
    /\ SmoothedNow > TargetMax * Scale

\* C24: the call of detectErrors within analyze() changes nothing of the
\* analyzer but the active error set: phase, previous phase, rep count, the
\* rep record with its raise time and peak angle, the two histories, the
\* score and the calibration flag are after it what they were before it.
C24_DetectErrorsOnlySetsErrors ==
    [][ pending # <<>> /\ pending[1].stage = "detectErrors"
        => /\ UNCHANGED <<currentPhase, previousPhase, repCount, currentRep,
                          leftArmHistory, rightArmHistory, formScore, calibrated>>
           /\ currentErrors' = pending'[1].errors ]_vars

\* C24 witness: detectErrors has just run on a HOLDING frame of a rep with
\* a start time and a peak, and found errors.
C24_Witness ==
    /\ pending # <<>> /\ pending[1].stage = "updateRepCount"
    /\ currentErrors # {} /\ currentErrors = pending[1].errors
    /\ currentPhase = "holding"
    /\ currentRep.startTime > 0 /\ currentRep.peakAngle > 0

C26_DegenerateGivesBoundaryAngle ==
    geometry # <<>> =>
        LET g == geometry[1]
            boundary(a) == a = 0 \/ a = 180000
        IN /\ g.wrist = g.shoulder => boundary(g.arm)
           /\ g.elbow = g.wrist \/ g.elbow = g.shoulder => boundary(g.elbowAngle)
           /\ g.shoulder = g.hip \/ g.shoulder = g.elbow => boundary(g.shoulderJoint)
           /\ g.elbow = g.wrist \/ g.elbow = g.shoulder => boundary(g.elbowJoint)

\* C27: the elevation angle of an arm lies in [0, 180] degrees; in [0, 90]
\* when the wrist is below the shoulder, in [90, 180] when it is at or above
\* shoulder height; and it is 0 exactly when the wrist is straight below the
\* shoulder.
C27_ElevationAngleRange ==
    geometry # <<>> =>
        LET g == geometry[1]
            below == g.wrist.y > g.shoulder.y
        IN /\ g.arm >= 0 /\ g.arm <= 180000
           /\ below => g.arm <= 90000
           /\ ~below => g.arm >= 90000
           /\ g.arm = 0 <=> (below /\ g.wrist.x = g.shoulder.x)

\* C27 witness: the wrist above the shoulder and as far to the side: the arm
\* is at 135 degrees.
C27_Witness ==
    /\ geometry # <<>>
    /\ geometry[1].wrist.y < geometry[1].shoulder.y
    /\ geometry[1].wrist.x # geometry[1].shoulder.x
    /\ geometry[1].arm = 135000

\* C28: a recognition result runs a command only for an alternative whose
\* confidence is at least confidenceThreshold; a final result all of whose
\* alternatives are under the threshold runs none.
C28_CommandNeedsConfidence ==
    voice # <<>> =>
        LET alternatives == voice[1].lastResult.alternatives
            outcome == voice[1].outcome
        IN /\ outcome.executed # <<>>
              => alternatives[outcome.chosen].confidence >= confidenceThreshold
           /\ (\A i \in 1..Len(alternatives) :
                   alternatives[i].confidence < confidenceThreshold)
              => outcome.executed = <<>>
-----------------------------------------------------------------------------
(* The page around the module: the session, the spoken feedback, the timers *)

(* main.js hands every pose frame of an active session to the exercise
   module, announces a completed repetition and lets the module's audio
   feedback announce the phase.  The feedback and the core audio schedule
   their later prompts with setTimeout(); the user can mute and unmute the
   audio and start and stop the session at any moment between two handlers.
   The analysis of the module is kept as its state and its count.  A
   timer is kept when its callback reads or writes a field or schedules
   another timer; the timers that only beep or speak (the second beep and
   the spoken count of a repetition, 'Great job!', the second sentence of
   the start, the summary after the stop), the beeps themselves, the
   spoken error corrections and the encouragement are left out.             *)

\* the callbacks that wait at one time
MaxPending == 3

\* the repetitions one session is followed for
MaxRepCount == 11

\* the repetition after which the session is ended
FinalRep == 10

States == {"resting", "raising", "holding", "lowering"}

Callbacks == {"lowerHands", "raiseAgain", "finished", "autoStop"}

Page == [audio |-> audio, audioFeedback |-> audioFeedback,
         timers |-> timers, session |-> session]

\* an id no waiting callback has and the feedback does not remember
FreshTimerId(p) ==
    CHOOSE i \in 1..(MaxPending + 3) :
        LET used(j) == \/ j = p.audioFeedback.holdTimerId
                       \/ \E t \in p.timers : t.id = j
        IN  ~used(i) /\ \A j \in 1..(i - 1) : used(j)

setTimeout(p, callback) ==
    [p EXCEPT !.timers = @ \cup {[id |-> FreshTimerId(p), callback |-> callback]}]

clearTimeout(p, id) == [p EXCEPT !.timers = {t \in @ : t.id # id}]

speak(p, text) == IF p.audio.enabled THEN [p EXCEPT !.audio.spoken = text] ELSE p

toggle(p) ==
    speak([p EXCEPT !.audio.enabled = ~@], "Audio feedback enabled")

clearHoldTimer(p) ==
    IF p.audioFeedback.holdTimerId # 0
    THEN [clearTimeout(p, p.audioFeedback.holdTimerId)
              EXCEPT !.audioFeedback.holdTimerId = 0]
    ELSE p

announcePhase(p, phase) ==
    LET lastPhase == p.audioFeedback.lastPhase
        changed ==
            CASE phase = "resting" ->
                   LET cleared == [clearHoldTimer(p)
                                      EXCEPT !.audioFeedback.holdTimerActive = FALSE]
                   IN  IF lastPhase = "lowering"
                       THEN setTimeout(cleared, "raiseAgain")
                       ELSE IF lastPhase = ""
                       THEN speak(cleared, "Ready to begin. Raise your arms slowly.")
                       ELSE cleared
              [] phase = "raising" -> p
              [] phase = "holding" ->
                   IF lastPhase = "raising"
                   THEN LET said == speak(p, "Hold for 3 seconds")
                            cleared == IF said.audioFeedback.holdTimerId # 0
                                       THEN clearTimeout(said, said.audioFeedback.holdTimerId)
                                       ELSE said
                            id == FreshTimerId([cleared EXCEPT !.audioFeedback.holdTimerId = 0])
                        IN  [cleared EXCEPT
                               !.audioFeedback.holdTimerActive = TRUE,
                               !.audioFeedback.holdTimerId = id,
                               !.timers = @ \cup {[id |-> id, callback |-> "lowerHands"]}]
                   ELSE p
              [] phase = "lowering" ->
                   IF lastPhase = "holding"
                   THEN [clearHoldTimer(p) EXCEPT !.audioFeedback.holdTimerActive = FALSE]
                   ELSE p
    IN  IF ~p.audio.enabled THEN p
        ELSE IF phase = lastPhase THEN p
        ELSE [changed EXCEPT !.audioFeedback.lastPhase = phase,
                             !.audioFeedback.currentPhase = phase]

resetFeedback(p) ==
    clearHoldTimer([p EXCEPT !.audioFeedback.lastPhase = "",
                             !.audioFeedback.currentPhase = "",
                             !.audioFeedback.holdTimerActive = FALSE])

announceExerciseStart(p) ==
    IF ~p.audio.enabled THEN p
    ELSE speak(p, "Starting Arm Raises. Stand with arms at your sides.")

announceRep(p, n) ==
    IF ~p.audio.enabled THEN p
    ELSE IF n = FinalRep THEN setTimeout(p, "finished")
    ELSE p

\* the states updateState() can go to from one state
NextStates(state) ==
    CASE state = "resting"  -> {"resting", "raising"}
      [] state = "raising"  -> {"raising", "holding", "resting"}
      [] state = "holding"  -> {"holding", "lowering"}
      [] state = "lowering" -> {"lowering", "resting"}

\* a repetition that got as far as lowering was a valid one
analyzePose(a, next) ==
    [state |-> next,
     repCount |-> IF a.state = "lowering" /\ next = "resting"
                  THEN a.repCount + 1 ELSE a.repCount]

handleRepComplete(p, n) ==
    announceRep([p EXCEPT !.session.announced = Append(@, n)], n)

processExercise_AnnouncesEveryFrame(p, next) ==
    LET analysis == analyzePose(p.session.analysis, next)
        announced == handleRepComplete(p, analysis.repCount)
        counted == [announced EXCEPT !.session.repCount = analysis.repCount,
                                     !.session.analysis = analysis]
    IN  announcePhase(counted, analysis.state)

processExercise(p, next) ==
    LET analysis == analyzePose(p.session.analysis, next)
        announced == IF analysis.repCount > p.session.repCount
                     THEN handleRepComplete(p, analysis.repCount) ELSE p
        counted == [announced EXCEPT !.session.repCount = analysis.repCount,
                                     !.session.analysis = analysis]
    IN  announcePhase(counted, analysis.state)

startExerciseTracking(p) ==
    LET started == [p EXCEPT !.session.exerciseActive = TRUE,
                             !.session.repCount = 0,
                             !.session.analysis = [state |-> "resting", repCount |-> 0]]
    IN  announceExerciseStart(resetFeedback(started))

stopExerciseTracking(p) == [p EXCEPT !.session.exerciseActive = FALSE]

RunCallback(p, t) ==
    CASE t.callback = "lowerHands" ->
           IF p.audio.enabled /\ p.audioFeedback.holdTimerActive
           THEN [speak(p, "Down your hands slowly")
                    EXCEPT !.audioFeedback.holdTimerActive = FALSE]
           ELSE p
      [] t.callback = "raiseAgain" ->
           IF p.audio.enabled /\ p.audioFeedback.currentPhase = "resting"
           THEN speak(p, "Raise your arms again") ELSE p
      [] t.callback = "finished" ->
           setTimeout(speak(p, "Exercise finished! Well done!"), "autoStop")
      [] t.callback = "autoStop" -> stopExerciseTracking(p)

\* nothing was spoken or announced yet in the handler that begins
Quiet(p) == [p EXCEPT !.audio.spoken = "", !.session.announced = <<>>]

Becomes(p) ==
    /\ Cardinality(p.timers) <= MaxPending
    /\ audio' = p.audio
    /\ audioFeedback' = p.audioFeedback
    /\ timers' = p.timers
    /\ session' = p.session
    /\ UNCHANGED analyzerVars
    /\ UNCHANGED <<geometry, voice, voiceCommands, countdown, speech,
                   modular>>

OnPoseResults ==
    /\ session.exerciseActive
    /\ \E next \in NextStates(session.analysis.state) :
           /\ analyzePose(session.analysis, next).repCount <= MaxRepCount
           /\ Becomes(processExercise(Quiet(Page), next))

\* the audio button is there with and without a session
ToggleAudio ==
    /\ session.exerciseActive \in BOOLEAN
    /\ Becomes(toggle(Quiet(Page)))

StartExercise ==
    /\ ~session.exerciseActive
    /\ Becomes(startExerciseTracking(Quiet(Page)))

StopExercise ==
    /\ session.exerciseActive
    /\ Becomes(stopExerciseTracking(Quiet(Page)))

FireCallback(callback) ==
    \E t \in timers :
        /\ t.callback = callback
        /\ Becomes(RunCallback([Quiet(Page) EXCEPT !.timers = @ \ {t}], t))

FireTimer == \E callback \in Callbacks : FireCallback(callback)

Session == OnPoseResults \/ ToggleAudio \/ StartExercise \/ StopExercise \/ FireTimer

SpecSession == Init /\ [][Session]_vars

\* C29: the prompt to lower the hands is spoken only while the analysed
\* phase is still holding, whatever the order of frames, muting and timers
C29_PromptOnlyWhileHolding ==
    audio.spoken = "Down your hands slowly" => session.analysis.state = "holding"

\* every callback that waits is run in the end
TimersFire == \A callback \in Callbacks : WF_vars(FireCallback(callback))

\* the camera goes on delivering frames to an active session
FramesArrive == WF_vars(OnPoseResults)

SpecSessionTimers == SpecSession /\ TimersFire /\ FramesArrive

\* C30: once the analyzer has counted the tenth repetition of an active
\* session, the session is ended without the user, as the timers fire
C30_TenthRepStopsSession ==
    (session.exerciseActive /\ session.analysis.repCount = FinalRep)
        ~> ~session.exerciseActive

\* C31: the stop scheduled by the tenth repetition ends only the session
\* that counted it: a session it ends has counted its own tenth repetition
C31_AutoStopEndsItsOwnSession ==
    [][(FireCallback("autoStop") /\ session.exerciseActive)
           => session.analysis.repCount >= FinalRep]_vars

-----------------------------------------------------------------------------
(* Voice listening: the recognizer, its events and the restart after an error *)

(* recognition.start() is answered by the browser with a 'start' event,
   recognition.stop() and the end of a session with an 'end' event, and
   an error with an 'error' event, after which the session ends or, for
   an error the recognizer survives, goes on.  The handlers of
   setupRecognition keep isListening; the button of the page toggles the
   listening.                                                               *)

\* the restarts that wait at one time
MaxRestarts == 4

RecognitionErrors == {"no-speech", "audio-capture", "network", "not-allowed"}

Heard(v) == [v EXCEPT !.started = FALSE, !.error = ""]

\* start() of a recognizer that is not idle throws, and the catch goes on
startListening(v) ==
    IF ~v.isListening
    THEN IF v.recognition = "idle"
         THEN [v EXCEPT !.started = TRUE, !.recognition = "starting"]
         ELSE [v EXCEPT !.started = TRUE, !.status = "error"]
    ELSE v

stopListening(v) ==
    IF v.isListening
    THEN [v EXCEPT !.recognition = IF @ \in {"starting", "running"} THEN "ending" ELSE @]
    ELSE v

toggleListening(v) == IF v.isListening THEN stopListening(v) ELSE startListening(v)

Listens(v) ==
    /\ voiceCommands' = v
    /\ UNCHANGED analyzerVars
    /\ UNCHANGED <<geometry, voice, audio, audioFeedback, timers, session, countdown,
                   speech, modular>>

\* the voice button is there whatever the recognizer does
ToggleListening ==
    /\ voiceCommands.isListening \in BOOLEAN
    /\ Listens(toggleListening(Heard(voiceCommands)))

OnStart ==
    /\ voiceCommands.recognition = "starting"
    /\ Listens([Heard(voiceCommands) EXCEPT !.isListening = TRUE,
                                            !.status = "listening",
                                            !.recognition = "running"])

OnEnd ==
    /\ voiceCommands.recognition = "ending"
    /\ Listens([Heard(voiceCommands) EXCEPT !.isListening = FALSE,
                                            !.status = "stopped",
                                            !.recognition = "idle"])

OnError ==
    /\ voiceCommands.recognition \in {"starting", "running"}
    /\ \E error \in RecognitionErrors, ends \in BOOLEAN :
           LET restartable == error = "no-speech" \/ error = "audio-capture"
           IN  /\ restartable => voiceCommands.restarts < MaxRestarts
               /\ Listens([Heard(voiceCommands) EXCEPT
                              !.error = error,
                              !.status = "error",
                              !.restarts = IF restartable THEN @ + 1 ELSE @,
                              !.recognition = IF ends THEN "ending" ELSE @])

Restart ==
    /\ voiceCommands.restarts > 0
    /\ LET fired == [Heard(voiceCommands) EXCEPT !.restarts = @ - 1]
       IN  Listens(IF fired.isListening THEN startListening(fired) ELSE fired)

Listening == ToggleListening \/ OnStart \/ OnEnd \/ OnError \/ Restart

\* the browser delivers its events and runs the callbacks that wait
SpecListening ==
    /\ Init /\ [][Listening]_vars
    /\ WF_vars(OnStart) /\ WF_vars(OnEnd) /\ WF_vars(Restart)

\* C33: an error 'no-speech' or 'audio-capture' while the listening is on
\* is followed by a call of recognition.start()
C33_ErrorRestartsRecognition ==
    (voiceCommands.isListening /\ voiceCommands.error \in {"no-speech", "audio-capture"})
        ~> voiceCommands.started

-----------------------------------------------------------------------------
(* The countdown of the hold in the audio feedback of the first page *)

(* The first page hands the phase, the hold duration and the hold flag of
   every analysis to AudioFeedback.announcePhase.  The analysis is kept as
   these three; the phase moves as detectMovementPhase lets it move, the
   hold duration grows by the time between two frames while the arms are
   held and is cleared when the repetition closes.  What was said is
   collected from the frame that reaches the hold, together with whether
   the audio was enabled all the time since.                                *)

\* the longest hold that is followed
MaxHold == 4 * Tick

\* the times between two frames
FrameGaps == {Tick \div 2, Tick}

\* the phases detectMovementPhase can return after one phase
PhasesAfter(phase) ==
    CASE phase = "resting"  -> {"resting", "raising", "holding"}
      [] phase = "raising"  -> {"raising", "holding", "resting"}
      [] phase = "holding"  -> {"holding", "lowering"}
      [] phase = "lowering" -> {"lowering", "holding", "resting"}

\* the hold fields of the analysis that follows a, one frame later
AnalysisAfter(a, phase, gap) ==
    LET held == IF phase = "holding" /\ a.phase \in {"holding", "lowering"}
                THEN a.holdDuration + gap ELSE a.holdDuration
    IN  IF a.phase = "lowering" /\ phase = "resting"
        THEN [phase |-> phase, holdDuration |-> 0, holdComplete |-> FALSE]
        ELSE [phase |-> phase, holdDuration |-> held,
              holdComplete |-> a.holdComplete \/ (phase = "holding" /\ held >= HoldMs)]

Say(c, text) == [c EXCEPT !.said = @ \cup {text}]

announcePhaseCountdown(c, phase, holdDuration, holdComplete) ==
    LET secondsHeld == holdDuration \div 1000
        counted == IF secondsHeld # c.holdCountdown
                   THEN LET ticked == [c EXCEPT !.holdCountdown = secondsHeld]
                        IN  IF secondsHeld = 1 THEN Say(ticked, "2")
                            ELSE IF secondsHeld = 2 THEN Say(ticked, "1")
                            ELSE ticked
                   ELSE c
        changed ==
            CASE phase = "resting" ->
                   IF c.lastPhase = "lowering"
                   THEN [c EXCEPT !.lowerInstructionGiven = FALSE,
                                  !.holdCountdownStarted = FALSE,
                                  !.holdCountdown = 0 - 1]
                   ELSE IF c.lastPhase = ""
                   THEN Say(c, "Ready to begin. Raise your arms slowly.")
                   ELSE c
              [] phase = "raising" -> c
              [] phase = "holding" ->
                   IF c.lastPhase = "raising"
                   THEN [Say(c, "Hold for 3 seconds")
                            EXCEPT !.holdCountdownStarted = TRUE,
                                   !.holdCountdown = 0 - 1]
                   ELSE IF c.holdCountdownStarted /\ ~holdComplete
                   THEN IF secondsHeld >= 3 /\ ~counted.lowerInstructionGiven
                        THEN [Say(counted, "Lower your arms slowly")
                                 EXCEPT !.lowerInstructionGiven = TRUE]
                        ELSE counted
                   ELSE c
              [] phase = "lowering" ->
                   IF c.lastPhase = "holding"
                   THEN [c EXCEPT !.holdCountdownStarted = FALSE,
                                  !.holdCountdown = 0 - 1,
                                  !.lowerInstructionGiven = FALSE]
                   ELSE c
    IN  IF ~c.enabled THEN c
        ELSE IF phase = c.lastPhase THEN c
        ELSE [changed EXCEPT !.lastPhase = phase, !.currentPhase = phase]

toggleCountdown(c) ==
    IF c.enabled
    THEN [c EXCEPT !.enabled = FALSE, !.listened = FALSE]
    ELSE Say([c EXCEPT !.enabled = TRUE], "Audio feedback enabled")

resetCountdown(c) ==
    [c EXCEPT !.lastPhase = "", !.currentPhase = "",
              !.holdCountdownStarted = FALSE, !.holdCountdown = 0 - 1,
              !.lowerInstructionGiven = FALSE]

\* what is said is collected from the frame that reaches the hold
HoldFrame(c, analysis) ==
    IF analysis.phase = "holding"
    THEN IF c.analysis.phase = "holding"
         THEN [c EXCEPT !.analysis = analysis]
         ELSE [c EXCEPT !.analysis = analysis, !.said = {},
                        !.listened = c.enabled,
                        !.fromRaising = c.analysis.phase = "raising"]
    ELSE [c EXCEPT !.analysis = analysis, !.said = {}, !.fromRaising = FALSE]

Counts(c) ==
    /\ countdown' = c
    /\ UNCHANGED analyzerVars
    /\ UNCHANGED <<geometry, voice, audio, audioFeedback, timers, session,
                   voiceCommands, speech,
                   modular>>

ProcessFrame ==
    \E phase \in PhasesAfter(countdown.analysis.phase), gap \in FrameGaps :
        LET analysis == AnalysisAfter(countdown.analysis, phase, gap)
        IN  /\ analysis.holdDuration <= MaxHold
            /\ Counts(announcePhaseCountdown(HoldFrame(countdown, analysis),
                          analysis.phase, analysis.holdDuration,
                          analysis.holdComplete))

\* the audio button of the first page
ToggleCountdownAudio ==
    /\ countdown.enabled \in BOOLEAN
    /\ Counts(toggleCountdown(countdown))

\* a new session: the analyzer and the feedback are reset
RestartCountdown ==
    /\ countdown.analysis.phase \in Phases
    /\ Counts(resetCountdown(
           [countdown EXCEPT !.analysis = [phase |-> "resting", holdDuration |-> 0,
                                           holdComplete |-> FALSE],
                             !.said = {}, !.fromRaising = FALSE]))

Countdown == ProcessFrame \/ ToggleCountdownAudio \/ RestartCountdown

SpecCountdown == Init /\ [][Countdown]_vars

\* C34: in a hold reached from raising, '2' has been spoken once one
\* second is held, '1' once two seconds are held and 'Lower your arms
\* slowly' once three seconds are held
C34_CountdownDuringHold ==
    (countdown.analysis.phase = "holding" /\ countdown.fromRaising
         /\ countdown.listened) =>
        /\ countdown.analysis.holdDuration >= 1000 => "2" \in countdown.said
        /\ countdown.analysis.holdDuration >= 2000 => "1" \in countdown.said
        /\ countdown.analysis.holdDuration >= 3000 =>
               "Lower your arms slowly" \in countdown.said

-----------------------------------------------------------------------------
(* Speech with its clock: repetitions and the cooldown of the corrections *)

(* speak() refuses a text that is the last one spoken less than
   minFeedbackInterval ago; announceError() refuses every correction less
   than errorCooldown after the last one it spoke.  The clock is read as
   Date.now(); what was handed to speech synthesis less than
   minFeedbackInterval ago, and when the last correction was spoken, is
   collected since the reset.                                               *)

minFeedbackInterval == 3000

errorCooldown == 5000

\* a correction may be repeated after this time
RepeatAfter == 8000

\* the time that is followed
MaxNow == Epoch + 9 * Tick

errorMessages ==
    << [key |-> "arm_too_high_left", message |-> "Lower your left arm slightly"],
       [key |-> "arm_too_high_right", message |-> "Lower your right arm slightly"],
       [key |-> "asymmetric_movement", message |-> "Keep both arms at the same height"],
       [key |-> "elbow_bent_left", message |-> "Straighten your left arm"],
       [key |-> "elbow_bent_right", message |-> "Straighten your right arm"],
       [key |-> "too_fast_raising", message |-> "Slower movement please"],
       [key |-> "insufficient_height", message |-> "Raise arms higher to shoulder level"] >>

\* the error sets handed to announceError
ErrorSets == SUBSET {"shoulder_shrug_left", "arm_too_high_right", "asymmetric_movement"}

\* the texts the phase announcements speak
PhaseTexts == {"Hold for 3 seconds"}

Silent(sp) == [sp EXCEPT !.handed = <<>>, !.errors = {}]

speakTimed(sp, text) ==
    IF ~sp.enabled THEN sp
    ELSE IF text = sp.lastFeedback
            /\ sp.now - sp.lastFeedbackTime < minFeedbackInterval THEN sp
    ELSE [sp EXCEPT !.handed = Append(@, text),
                    !.recent = @ \cup {[text |-> text, time |-> sp.now]},
                    !.lastFeedback = text,
                    !.lastFeedbackTime = sp.now]

\* the entries of the message table whose error is present, in its order
PresentMessages(errors) ==
    SelectSeq(errorMessages, LAMBDA entry : entry.key \in errors)

announceError_NoCooldown(sp, errors) ==
    LET present == PresentMessages(errors)
        message == present[1].message
    IN  IF ~sp.enabled \/ errors = {} THEN sp
        ELSE IF present = <<>> THEN sp
        ELSE IF sp.lastFeedback # message \/ sp.now - sp.lastFeedbackTime > RepeatAfter
        THEN [speakTimed(sp, message) EXCEPT !.lastErrorTime = sp.now,
                                             !.errorAt = sp.now]
        ELSE sp

announceError(sp, errors) ==
    LET present == PresentMessages(errors)
        message == present[1].message
    IN  IF ~sp.enabled \/ errors = {} THEN sp
        ELSE IF sp.now - sp.lastErrorTime < errorCooldown THEN sp
        ELSE IF present = <<>> THEN sp
        ELSE IF sp.lastFeedback # message \/ sp.now - sp.lastFeedbackTime > RepeatAfter
        THEN [speakTimed(sp, message) EXCEPT !.lastErrorTime = sp.now,
                                             !.errorAt = sp.now]
        ELSE sp

toggleSpeech(sp) ==
    LET toggled == [sp EXCEPT !.enabled = ~@]
    IN  IF toggled.enabled THEN speakTimed(toggled, "Audio feedback enabled")
        ELSE toggled

resetSpeech(sp) ==
    [sp EXCEPT !.lastFeedback = "", !.lastFeedbackTime = 0, !.lastErrorTime = 0,
               !.recent = {}, !.errorAt = 0 - 1]

Speaks(sp) ==
    /\ speech' = sp
    /\ UNCHANGED analyzerVars
    /\ UNCHANGED <<geometry, voice, audio, audioFeedback, timers, session,
                   voiceCommands, countdown,
                   modular>>

\* time passes between two handlers
Tock ==
    /\ speech.now < MaxNow
    /\ LET now == speech.now + Tick
       IN  Speaks([Silent(speech) EXCEPT
                     !.now = now,
                     !.recent = {r \in @ : now - r.time < minFeedbackInterval}])

SpeakPhase == \E text \in PhaseTexts : Speaks(speakTimed(Silent(speech), text))

AnnounceError ==
    \E errors \in ErrorSets :
        Speaks([announceError(Silent(speech), errors) EXCEPT !.errors = errors])

ToggleSpeech ==
    /\ speech.enabled \in BOOLEAN
    /\ Speaks(toggleSpeech(Silent(speech)))

ResetSpeech ==
    /\ speech.now > Epoch
    /\ Speaks(resetSpeech(Silent(speech)))

Speech == Tock \/ SpeakPhase \/ AnnounceError \/ ToggleSpeech \/ ResetSpeech

SpecSpeech == Init /\ [][Speech]_vars

\* C35: a text handed to speech synthesis was not handed to it less than
\* minFeedbackInterval before, since the reset, and nothing is handed to it
\* while the audio is disabled
C35_NoRepeatWithinInterval ==
    [][\A i \in 1..Len(speech'.handed) :
           /\ speech'.enabled
           /\ \A r \in speech.recent : r.text # speech'.handed[i]]_vars

\* C36: a correction is spoken errorCooldown or more after the last one
\* spoken since the reset, and one call speaks at most one message, that of
\* the first error of the table that is present
C36_CorrectionsKeepCooldown ==
    [][speech'.errors # {} =>
           /\ Len(speech'.handed) <= 1
           /\ speech'.handed # <<>> =>
                 /\ speech'.handed[1] = PresentMessages(speech'.errors)[1].message
                 /\ speech.errorAt >= 0 => speech.now - speech.errorAt >= errorCooldown]_vars

C36_Witness ==
    /\ speech.errors = {"arm_too_high_right", "asymmetric_movement"}
    /\ speech.handed = <<"Lower your right arm slightly">>
    /\ speech.errorAt = speech.now
    /\ speech.lastErrorTime = speech.now
    /\ speech.now >= Epoch + errorCooldown
    /\ \E r \in speech.recent : r.text = "Audio feedback enabled"

-----------------------------------------------------------------------------
(* The analyzer of the exercise module: its states and the time between them *)

(* updateState() is followed with the clock it reads and the mean shoulder
   angle of the frame, a number of degrees or NaN.  A frame without a pose
   lets the time pass and nothing else.  Kept beside the fields: the time
   of the last change of currentState, or of the construction or the
   reset, and whether the state was HOLDING on a frame since the last
   counted repetition or the reset.  repStartTime, which updateState only
   writes, and the form analysis are left out.                              *)

\* the time that has to pass between two changes of state
MinTransitionMs == 300

\* the time the arms are to be held, in the module
holdDuration == 3000

restingMax == 30

raisedMin == 75

\* the time the module is followed for
MaxModularNow == Epoch + 4000

\* the times between two frames
ModularGaps == {100, 300}

\* the mean shoulder angles of the frames
ShoulderAngles == {NaN, 29, 30, 40, 41, 54, 55, 74, 75, 90}

updateState_NoDebounce(m, avgShoulder, now) ==
    LET timeSinceTransition == now - m.lastTransitionTime
        number == avgShoulder # NaN
        seen == [m EXCEPT !.previousState = m.currentState]
    IN  CASE m.currentState = "resting" ->
               IF number /\ avgShoulder > restingMax + 10
               THEN [seen EXCEPT !.currentState = "raising",
                                 !.lastTransitionTime = now,
                                 !.validRep = TRUE]
               ELSE seen
          [] m.currentState = "raising" ->
               IF number /\ avgShoulder >= raisedMin
               THEN [seen EXCEPT !.currentState = "holding",
                                 !.holdStartTime = now,
                                 !.lastTransitionTime = now]
               ELSE IF number /\ avgShoulder < restingMax
               THEN [seen EXCEPT !.currentState = "resting",
                                 !.lastTransitionTime = now,
                                 !.validRep = FALSE]
               ELSE seen
          [] m.currentState = "holding" ->
               IF now - m.holdStartTime >= holdDuration
                  \/ (number /\ avgShoulder < raisedMin - 20)
               THEN [seen EXCEPT !.currentState = "lowering",
                                 !.lastTransitionTime = now]
               ELSE seen
          [] m.currentState = "lowering" ->
               IF number /\ avgShoulder <= restingMax
               THEN [seen EXCEPT !.currentState = "resting",
                                 !.lastTransitionTime = now,
                                 !.repCount = IF m.validRep THEN @ + 1 ELSE @,
                                 !.validRep = FALSE]
               ELSE seen

updateState_CountsAbandonedRaise(m, avgShoulder, now) ==
    LET timeSinceTransition == now - m.lastTransitionTime
        number == avgShoulder # NaN
        seen == [m EXCEPT !.previousState = m.currentState]
    IN  IF timeSinceTransition < MinTransitionMs THEN m
        ELSE CASE m.currentState = "resting" ->
               IF number /\ avgShoulder > restingMax + 10
               THEN [seen EXCEPT !.currentState = "raising",
                                 !.lastTransitionTime = now,
                                 !.validRep = TRUE]
               ELSE seen
          [] m.currentState = "raising" ->
               IF number /\ avgShoulder >= raisedMin
               THEN [seen EXCEPT !.currentState = "holding",
                                 !.holdStartTime = now,
                                 !.lastTransitionTime = now]
               ELSE IF number /\ avgShoulder < restingMax
               THEN [seen EXCEPT !.currentState = "resting",
                                 !.lastTransitionTime = now,
                                 !.repCount = IF m.validRep THEN @ + 1 ELSE @,
                                 !.validRep = FALSE]
               ELSE seen
          [] m.currentState = "holding" ->
               IF now - m.holdStartTime >= holdDuration
                  \/ (number /\ avgShoulder < raisedMin - 20)
               THEN [seen EXCEPT !.currentState = "lowering",
                                 !.lastTransitionTime = now]
               ELSE seen
          [] m.currentState = "lowering" ->
               IF number /\ avgShoulder <= restingMax
               THEN [seen EXCEPT !.currentState = "resting",
                                 !.lastTransitionTime = now,
                                 !.repCount = IF m.validRep THEN @ + 1 ELSE @,
                                 !.validRep = FALSE]
               ELSE seen

updateState(m, avgShoulder, now) ==
    LET timeSinceTransition == now - m.lastTransitionTime
        number == avgShoulder # NaN
        seen == [m EXCEPT !.previousState = m.currentState]
    IN  IF timeSinceTransition < MinTransitionMs THEN m
        ELSE CASE m.currentState = "resting" ->
               IF number /\ avgShoulder > restingMax + 10
               THEN [seen EXCEPT !.currentState = "raising",
                                 !.lastTransitionTime = now,
                                 !.validRep = TRUE]
               ELSE seen
          [] m.currentState = "raising" ->
               IF number /\ avgShoulder >= raisedMin
               THEN [seen EXCEPT !.currentState = "holding",
                                 !.holdStartTime = now,
                                 !.lastTransitionTime = now]
               ELSE IF number /\ avgShoulder < restingMax
               THEN [seen EXCEPT !.currentState = "resting",
                                 !.lastTransitionTime = now,
                                 !.validRep = FALSE]
               ELSE seen
          [] m.currentState = "holding" ->
               IF now - m.holdStartTime >= holdDuration
                  \/ (number /\ avgShoulder < raisedMin - 20)
               THEN [seen EXCEPT !.currentState = "lowering",
                                 !.lastTransitionTime = now]
               ELSE seen
          [] m.currentState = "lowering" ->
               IF number /\ avgShoulder <= restingMax
               THEN [seen EXCEPT !.currentState = "resting",
                                 !.lastTransitionTime = now,
                                 !.repCount = IF m.validRep THEN @ + 1 ELSE @,
                                 !.validRep = FALSE]
               ELSE seen

resetModular(m) ==
    [m EXCEPT !.currentState = "resting", !.previousState = "resting",
              !.repCount = 0, !.holdStartTime = 0,
              !.lastTransitionTime = m.now, !.validRep = FALSE]

\* what is kept beside the fields, after a frame that led from m to after
Observed(m, after) ==
    [after EXCEPT
       !.changedAt = IF after.currentState # m.currentState THEN after.now ELSE @,
       !.held = IF after.repCount > m.repCount THEN FALSE
                ELSE @ \/ after.currentState = "holding"]

Moves(m) ==
    /\ modular' = m
    /\ UNCHANGED analyzerVars
    /\ UNCHANGED <<geometry, voice, audio, audioFeedback, timers, session,
                   voiceCommands, countdown, speech>>

ModularFrame ==
    /\ modular.now < MaxModularNow
    /\ \E gap \in ModularGaps, avgShoulder \in ShoulderAngles :
           LET now == modular.now + gap
           IN  Moves(Observed(modular,
                         updateState([modular EXCEPT !.now = now], avgShoulder, now)))

\* a frame without a pose: analyze() returns null
ModularNoPose ==
    /\ modular.now < MaxModularNow
    /\ \E gap \in ModularGaps : Moves([modular EXCEPT !.now = @ + gap])

ModularReset ==
    /\ modular.now > Epoch
    /\ Moves([resetModular(modular) EXCEPT !.changedAt = modular.now, !.held = FALSE])

Modular == ModularFrame \/ ModularNoPose \/ ModularReset

SpecModular == Init /\ [][Modular]_vars

\* C37: a change of currentState comes MinTransitionMs or more after the
\* change before it, the construction or the reset, and a frame that comes
\* earlier changes neither currentState, previousState, validRep nor repCount
C37_TransitionsAreDebounced ==
    [][modular'.now > modular.now =>
           /\ modular'.currentState # modular.currentState
                  => modular'.now - modular.changedAt >= MinTransitionMs
           /\ modular'.now - modular.changedAt < MinTransitionMs
                  => /\ modular'.currentState = modular.currentState
                     /\ modular'.previousState = modular.previousState
                     /\ modular'.validRep = modular.validRep
                     /\ modular'.repCount = modular.repCount]_vars

C37_Witness ==
    /\ modular.currentState = "holding"
    /\ modular.previousState = "raising"
    /\ modular.changedAt = Epoch + 2 * MinTransitionMs
    /\ modular.now = modular.changedAt + 200

-----------------------------------------------------------------------------
(* The peak of the repetition under way, in the engine *)

\* C39: whenever currentPhase is HOLDING or LOWERING the peak angle of the
\* repetition lies in the target band, and a frame that takes the phase
\* from LOWERING to RESTING increments repCount
C39_PeakInBandWhileRaised ==
    /\ [](currentPhase \in {"holding", "lowering"}
             => InTargetBand(currentRep.peakAngle))
    /\ [][(FrameStep /\ currentPhase = "lowering" /\ currentPhase' = "resting")
             => repCount' = repCount + 1]_vars

C39_Witness ==
    /\ fresh # <<>>
    /\ currentPhase = "resting"
    /\ previousPhase = "lowering"
    /\ repCount = 1
    /\ currentRep.peakAngle = 0
====
